---- MODULE Spec2Model ----
(***************************************************************************)
(* A model of the shared governance core of the ambient-music generator:  *)
(*   - ActivityMap   (src/src/utils/activity_map.py), the "Zen Director"  *)
(*   - SafetyFilter  (src/src/core/safety_filter.py)                      *)
(*   - the collaborators they probe: ZenArcMatrix, BreathSyncManager,     *)
(*     RegisterManager                                                    *)
(*   - the engines' commit sites and the orchestrator's engine order.     *)
(*                                                                         *)
(* Floats are modelled exactly.  Bin weights are integers in units of     *)
(* 1/WeightUnit, ratios are reduced fractions <<n, d>> with d > 0.        *)
(***************************************************************************)
EXTENDS Integers, Sequences, FiniteSets

VARIABLES
    total_ticks,    \* ActivityMap.total_ticks
    global_bins,    \* ActivityMap.global_bins : 0..num_bins-1 -> weight
    layer_bins,     \* ActivityMap.layer_bins  : key -> (0..num_bins-1 -> weight)
    decision,       \* what the latest ActivityMap call returned: an ActivityDecision or none
    last_call,      \* the latest call on the ActivityMap, with its arguments
    ncommits,       \* number of commit_event / add_activity calls so far
    scenario,       \* the events of the admission-fairness scenario
    commit_log,     \* generation run: <<layer key, tick>> of every commit
    query_log,      \* generation run: <<layer key, tick, allow>> of every query;
                    \* SpecDenied: <<layer, tick, commits so far>> of every query a
                    \* hard limit denied
    engine_pc,      \* generation run: position in the orchestrator's engine order
    register_manager, \* the class of the register manager the SafetyFilter holds
    cfg,            \* SafetyFilter.cfg
    safety,         \* SafetyFilter: _last_velocity and the guards' histories
    result,         \* what the latest apply_note call returned, or that it raised
    napply,         \* number of apply_note calls so far
    apply_log,      \* SpecDensity: the apply_note calls in order, each with its verdict
    breath_sync,    \* BreathSyncManager: ppq, breath_cycle_bars, breath_length_ticks, enabled
    slots_used,     \* BreathSyncManager._slots_used : <<breath_index, tag>> -> count
    breath_call,    \* the latest call on the BreathSyncManager, with what it returned
    nalign,         \* number of align_note calls so far
    align_log,      \* the shifted align_note calls since the last reset_state, in order
    timeline,       \* user_options["zen_arc"]["timeline"] the ZenArcMatrix was built with
    phases,         \* ZenArcMatrix.phases
    phase_call,     \* the latest get_phase_by_ratio call, with the phase it returned
    struct_builder, \* StructureBuilder: scale family, options, tempo map figures
    segments,       \* the list the latest build_segments call returned
    build_call,     \* the latest build_segments call
    global_shift_semitones, \* RegisterManager.global_shift_semitones
    bands,          \* RegisterManager.bands : layer key -> <<min_midi, max_midi>>
    pitch_call,     \* the latest constrain_pitch call, with the band get_band reports
    tuning_options, \* TuningCoreV3.user_options: key, scale, drone_mode, solf_profile
    tuning_plan,    \* the TuningPlan the latest build_plan call returned
    drone_call,     \* the latest drone note suggested, with the note it was folded from
    seed_option,    \* user_options["seed"] of the two runs compared: << >> is None
    runs,           \* the two runs: seed, generator positions, bins, decisions, notes
    draw_sources,   \* the generators the draws of the runs came from
    nseed           \* calls made on the two runs

mapVars == <<total_ticks, global_bins, layer_bins, decision, last_call, ncommits>>
safetyVars == <<register_manager, cfg, safety, result, napply, apply_log>>
breathVars == <<breath_sync, slots_used, breath_call, nalign, align_log>>
zenArcVars == <<timeline, phases, phase_call>>
structVars == <<struct_builder, segments, build_call>>
registerVars == <<global_shift_semitones, bands, pitch_call>>
tuningVars == <<tuning_options, tuning_plan, drone_call>>
seedVars == <<seed_option, runs, draw_sources, nseed>>
coreVars ==
    <<breathVars, zenArcVars, structVars, registerVars, tuningVars, seedVars>>
legacyVars == <<mapVars, scenario, commit_log, query_log, engine_pc, safetyVars>>
runVars == <<scenario, commit_log, query_log, engine_pc, safetyVars, coreVars>>

vars == <<total_ticks, global_bins, layer_bins, decision, last_call, ncommits,
          scenario, commit_log, query_log, engine_pc,
          register_manager, cfg, safety, result, napply, apply_log,
          breath_sync, slots_used, breath_call, nalign, align_log,
          timeline, phases, phase_call,
          struct_builder, segments, build_call,
          global_shift_semitones, bands, pitch_call,
          tuning_options, tuning_plan, drone_call,
          seed_option, runs, draw_sources, nseed>>

-----------------------------------------------------------------------------
(* Bounds of the model *)

MaxBins == 3          \* the run length gives 1..MaxBins bins
MaxCommits == 2       \* commit_event / add_activity calls explored per run
MaxApply == 2         \* apply_note calls explored per SafetyFilter
MaxAlign == 3         \* align_note calls explored per BreathSyncManager
MaxSeedCalls == 3     \* calls made on each of the two runs compared
MaxSums == 3          \* commits explored on the map whose bins are doubles
MaxDense == 4         \* apply_note calls explored under the lowered density limits
MaxPrior == 14        \* loud notes a SafetyFilter may have passed before the calls explored
RandSteps == 2        \* rng.random() draws come from {0/RandSteps .. (RandSteps-1)/RandSteps}

(* Program constants *)

bin_size_ticks == 120          \* ActivityMapConfig.bin_size_ticks
ppq == 480                     \* TempoMap.ppq
breath_cycle_bars == 2         \* TempoMap.breath_cycle_bars as the orchestrator sets it

\* one unit of weight 0.1; divisible by every span of 1..8 bins
WeightUnit == 8 * 105
Tenth(x) == x * WeightUnit

-----------------------------------------------------------------------------
(* Exact fractions *)

RECURSIVE GCD(_, _)
GCD(a, b) == IF b = 0 THEN a ELSE GCD(b, a % b)

Abs(x) == IF x < 0 THEN -x ELSE x
Min(a, b) == IF a < b THEN a ELSE b
Max(a, b) == IF a > b THEN a ELSE b

Rat(n, d) ==
    LET g == GCD(Abs(n), d)
    IN  <<n \div g, d \div g>>

RMul(a, b) == Rat(a[1] * b[1], a[2] * b[2])
RAdd(a, b) == Rat(a[1] * b[2] + b[1] * a[2], a[2] * b[2])
RSub(a, b) == Rat(a[1] * b[2] - b[1] * a[2], a[2] * b[2])
RLt(a, b) == a[1] * b[2] < b[1] * a[2]
RLe(a, b) == a[1] * b[2] <= b[1] * a[2]
RMax(a, b) == IF RLt(a, b) THEN b ELSE a
RMin(a, b) == IF RLt(b, a) THEN b ELSE a

\* _clamp(x, lo, hi) = max(lo, min(hi, x))
clamp(x, lo, hi) == RMax(lo, RMin(hi, x))

Zero == <<0, 1>>
One == <<1, 1>>

\* str(layer).upper()
Upper(layer) ==
    CASE layer = "melody" -> "MELODY"
      [] layer = "drone" -> "DRONE"
      [] layer = "bass" -> "BASS"
      [] layer = "chime" -> "CHIME"
      [] layer = "handpan" -> "HANDPAN"
      [] layer = "d" -> "D"
      [] layer = "db" -> "DB"
      [] layer = "Eb" -> "EB"
      [] OTHER -> layer

\* str(x).lower(), on the strings the model passes to it
Lower(x) ==
    CASE x = "Ionian" -> "ionian"
      [] x = "Dorian" -> "dorian"
      [] x = "SOLF" -> "solf"
      [] x = "Solf_Dual" -> "solf_dual"
      [] OTHER -> x

-----------------------------------------------------------------------------
(* ZenArcMatrix: the five default phases.  Ratios are fractions. *)

Phase(name, index, s, e, energy, move) ==
    [name |-> name, index |-> index,
     start_ratio |-> Rat(s, 100), end_ratio |-> Rat(e, 100),
     base_energy |-> Rat(energy, 100), movement_bias |-> Rat(move, 100)]

build_default_phases ==
    << Phase("grounding",   1,  0,  18, 25, 15),
       Phase("immersion",   2, 18,  42, 55, 40),
       Phase("breakdown",   3, 42,  58, 20, 10),
       Phase("awakening",   4, 58,  82, 60, 55),
       Phase("integration", 5, 82, 100, 30, 20) >>

contains_ratio(p, r) == RLe(p.start_ratio, r) /\ RLt(r, p.end_ratio)

\* list.sort(key=start_ratio): a stable sort
RECURSIVE SortByStart(_)
SortByStart(ps) ==
    IF Len(ps) <= 1 THEN ps
    ELSE LET front == SortByStart(SubSeq(ps, 1, Len(ps) - 1))
             p == ps[Len(ps)]
             k == Cardinality({i \in 1..Len(front) :
                                 RLe(front[i].start_ratio, p.start_ratio)})
         IN  SubSeq(front, 1, k) \o <<p>> \o SubSeq(front, k + 1, Len(front))

\* _apply_timeline_overrides; tl_conf is a sequence of <<phase_name, s, e>>,
\* one entry per key of the "timeline" mapping
apply_timeline_overrides(ps, tl_conf) ==
    LET Accepted(i) ==
            /\ RLt(clamp(tl_conf[i][2], Zero, One), clamp(tl_conf[i][3], Zero, One))
        Entry(p) == {i \in 1..Len(tl_conf) : tl_conf[i][1] = p.name /\ Accepted(i)}
        Over(p) ==
            IF Entry(p) = {} THEN p
            ELSE LET i == CHOOSE i \in Entry(p) : TRUE
                 IN  [p EXCEPT !.start_ratio = clamp(tl_conf[i][2], Zero, One),
                               !.end_ratio = clamp(tl_conf[i][3], Zero, One)]
    IN  SortByStart([k \in 1..Len(ps) |-> Over(ps[k])])

\* ZenArcMatrix.__init__: the phases of a matrix built with this timeline
ZenArcMatrix_init(tl_conf) ==
    apply_timeline_overrides(build_default_phases, tl_conf)

\* a lookup over closed intervals [start_ratio, end_ratio]
get_phase_by_ratio_closed(ps, progress_ratio) ==
    LET r == clamp(progress_ratio, Zero, One)
        hits == {i \in 1..Len(ps) : RLe(ps[i].start_ratio, r) /\ RLe(r, ps[i].end_ratio)}
    IN  IF hits # {}
        THEN ps[CHOOSE i \in hits : \A j \in hits : i <= j]
        ELSE ps[Len(ps)]

get_phase_by_ratio(ps, progress_ratio) ==
    LET r == clamp(progress_ratio, Zero, One)
        hits == {i \in 1..Len(ps) : contains_ratio(ps[i], r)}
    IN  IF hits # {}
        THEN ps[CHOOSE i \in hits : \A j \in hits : i <= j]
        ELSE ps[Len(ps)]

get_phase_for_tick(ps, current_tick, total) ==
    get_phase_by_ratio(ps,
        IF total <= 0 THEN Zero ELSE Rat(current_tick, total))

\* the public methods the class ZenArcMatrix defines
ZenArcMatrixMethods ==
    {"get_phase_by_ratio", "get_phase_for_segment", "get_phase_for_tick",
     "get_layer_profile", "describe"}

-----------------------------------------------------------------------------
(* StructureBuilder: the segment timeline *)

\* _map_key_to_chords for the key C: Roman numeral -> chord name
chord_map(scale_major) ==
    IF scale_major
    THEN [r \in {"Imaj7", "Iadd9", "Isus2", "IIm7", "IIIm7", "IVmaj7", "IVadd9",
                 "IVsus2", "V7", "VIm7", "VIIm7b5"} |->
            CASE r = "Imaj7" -> "Cmaj7" [] r = "Iadd9" -> "Cadd9"
              [] r = "Isus2" -> "Csus2" [] r = "IIm7" -> "Dm7"
              [] r = "IIIm7" -> "Em7" [] r = "IVmaj7" -> "Fmaj7"
              [] r = "IVadd9" -> "Fadd9" [] r = "IVsus2" -> "Fsus2"
              [] r = "V7" -> "Gdom7" [] r = "VIm7" -> "Am7"
              [] OTHER -> "Bm7b5"]
    ELSE [r \in {"Im7", "Imadd9", "Isus2", "IIm7b5", "IIImaj7", "IVm7", "Vm7",
                 "VImaj7", "VII7"} |->
            CASE r = "Im7" -> "Cm7" [] r = "Imadd9" -> "Cmadd9"
              [] r = "Isus2" -> "Csus2" [] r = "IIm7b5" -> "Dm7b5"
              [] r = "IIImaj7" -> "D#maj7" [] r = "IVm7" -> "Fm7"
              [] r = "Vm7" -> "Gm7" [] r = "VImaj7" -> "G#maj7"
              [] OTHER -> "A#dom7"]

\* SECTION_ENERGY.get(sec, 0.5)
SECTION_ENERGY(sec) ==
    CASE sec = "Intro" -> Rat(20, 100)
      [] sec = "Verse" -> Rat(40, 100)
      [] sec = "Chorus" -> Rat(65, 100)
      [] sec = "Bridge" -> Rat(55, 100)
      [] sec = "Outro" -> Rat(15, 100)
      [] sec = "Zen" -> Rat(40, 100)
      [] OTHER -> Rat(1, 2)

\* _bars_to_ticks: int(ppq * 4.0 * bars)
bars_to_ticks(sb, bars) == (bars[1] * 4 * sb.ppq) \div bars[2]

\* _seconds_to_ticks through TempoMap.get_ticks_for_duration
seconds_to_ticks(sb, seconds) ==
    IF seconds <= 0 THEN 0
    ELSE (seconds * sb.avg_bpm * sb.ppq) \div 60

\* the fallback progression of build_segments
fallback_progression(scale_major) ==
    IF scale_major THEN << <<"Imaj7", "Verse">>, <<"IVmaj7", "Verse">> >>
    ELSE << <<"Im7", "Verse">>, <<"IVm7", "Verse">> >>

\* breaths per chord: the option when given (<<n>>), else (<< >>) 4 for the
\* fallback and 1 for a custom progression; at least 1
breaths_per_chord(sb, is_auto) ==
    LET default_breaths == IF is_auto THEN 4 ELSE 1
        raw == IF sb.breaths_per_chord = << >> THEN default_breaths
               ELSE sb.breaths_per_chord[1]
    IN  IF raw < 1 THEN 1 ELSE raw

Segment(start_tick, dur, c_name, sec, idx) ==
    [start_tick |-> start_tick, end_tick |-> start_tick + dur,
     duration_ticks |-> dur, chord_name |-> c_name, index |-> idx,
     section_type |-> sec, energy_bias |-> SECTION_ENERGY(sec),
     phase_name |-> "grounding", phase_index |-> 1, phase_energy |-> Zero,
     movement_hint |-> Rat(1, 2), stillness_hint |-> Rat(1, 2),
     is_breakdown |-> FALSE]

\* the while loop of _build_from_progression; truncate tells whether the
\* segment that would pass total_ticks is cut to end there
RECURSIVE build_loop(_, _, _, _, _, _, _, _)
build_loop(sb, data, total, bar_ticks, truncate, current_tick, idx, acc) ==
    IF ~(current_tick < total) THEN acc
    ELSE LET item == data[(idx % Len(data)) + 1]
             c_name == IF item[1] \in DOMAIN chord_map(sb.scale_major)
                       THEN chord_map(sb.scale_major)[item[1]] ELSE item[1]
             dur == IF truncate /\ current_tick + bar_ticks > total
                    THEN total - current_tick ELSE bar_ticks
         IN  IF dur <= 0 THEN acc
             ELSE build_loop(sb, data, total, bar_ticks, truncate,
                             current_tick + dur, idx + 1,
                             Append(acc, Segment(current_tick, dur, c_name,
                                                 item[2], idx)))

\* the timeline whose last segment keeps its full length
build_from_progression_untruncated(sb, data, total, is_auto) ==
    LET bars_per_chord == RMul(Rat(breaths_per_chord(sb, is_auto), 1), sb.cycle_bars)
    IN  IF Len(data) = 0 THEN << >>
        ELSE build_loop(sb, data, total, bars_to_ticks(sb, bars_per_chord),
                        FALSE, 0, 0, << >>)

\* _build_from_progression
build_from_progression(sb, data, total, is_auto) ==
    LET bars_per_chord == RMul(Rat(breaths_per_chord(sb, is_auto), 1), sb.cycle_bars)
    IN  IF Len(data) = 0 THEN << >>
        ELSE build_loop(sb, data, total, bars_to_ticks(sb, bars_per_chord),
                        TRUE, 0, 0, << >>)

\* _apply_zen_arc on one segment, with the phases of the run's ZenArcMatrix
apply_zen_arc_to(ps, seg, total) ==
    LET center_tick == seg.start_tick + (seg.duration_ticks \div 2)
        ratio == clamp(Rat(center_tick, total), Zero, One)
        phase_def == get_phase_by_ratio(ps, ratio)
        mv == clamp(phase_def.movement_bias, Zero, One)
        combined0 == RAdd(RMul(Rat(1, 2), seg.energy_bias),
                          RMul(Rat(1, 2), phase_def.base_energy))
        combined == IF phase_def.name = "awakening"
                    THEN RMul(combined0, Rat(11, 10))
                    ELSE IF phase_def.name = "breakdown"
                    THEN RMul(combined0, Rat(7, 10))
                    ELSE combined0
    IN  [seg EXCEPT !.phase_name = phase_def.name,
                    !.phase_index = phase_def.index,
                    !.phase_energy = phase_def.base_energy,
                    !.movement_hint = mv,
                    !.stillness_hint = clamp(RSub(One, mv), Zero, One),
                    !.is_breakdown = (phase_def.name = "breakdown"),
                    !.energy_bias = clamp(combined, Rat(1, 10), One)]

apply_zen_arc(ps, segs, total) ==
    IF total <= 0 \/ Len(segs) = 0 THEN segs
    ELSE [i \in 1..Len(segs) |-> apply_zen_arc_to(ps, segs[i], total)]

\* build_segments: [raised, total_ticks, segments]; no path of it raises
build_segments(sb, ps, total_seconds) ==
    LET total == seconds_to_ticks(sb, total_seconds)
        is_auto == Len(sb.custom_chord_progression) = 0
        progression == IF is_auto THEN fallback_progression(sb.scale_major)
                       ELSE sb.custom_chord_progression
    IN  IF total <= 0
        THEN [raised |-> FALSE, total_ticks |-> total, segments |-> << >>]
        ELSE [raised |-> FALSE, total_ticks |-> total,
              segments |-> apply_zen_arc(ps,
                  build_from_progression(sb, progression, total, is_auto), total)]

-----------------------------------------------------------------------------
(* RegisterManager: the pitch band of each layer *)

DEFAULT_BANDS ==
    [k \in {"DRONE", "BASS", "HARM", "MELODY", "CHIME", "AIR", "HANDPAN",
            "PULSE", "NATURE", "VOCAL", "BINAURAL", "GENERIC"} |->
        CASE k = "DRONE" -> <<36, 52>>   [] k = "BASS" -> <<36, 60>>
          [] k = "HARM" -> <<48, 76>>    [] k = "MELODY" -> <<60, 96>>
          [] k = "CHIME" -> <<65, 100>>  [] k = "AIR" -> <<60, 100>>
          [] k = "HANDPAN" -> <<60, 88>> [] k = "PULSE" -> <<48, 76>>
          [] k = "NATURE" -> <<48, 88>>  [] k = "VOCAL" -> <<48, 80>>
          [] k = "BINAURAL" -> <<24, 48>>
          [] OTHER -> <<36, 96>>]

LAYER_ALIAS ==
    [a \in {"HARM_MAIN", "HARM_LAYER", "PAD", "STRINGS", "MELODY_MAIN", "LEAD",
            "FLUTE", "DRONE_LOW", "DRONE_HIGH", "BASS_MAIN", "KICK_BASS",
            "PULSE_MAIN", "FX", "AMBIENT"} |->
        CASE a \in {"HARM_MAIN", "HARM_LAYER", "PAD", "STRINGS"} -> "HARM"
          [] a \in {"MELODY_MAIN", "LEAD", "FLUTE"} -> "MELODY"
          [] a \in {"DRONE_LOW", "DRONE_HIGH"} -> "DRONE"
          [] a \in {"BASS_MAIN", "KICK_BASS"} -> "BASS"
          [] a = "PULSE_MAIN" -> "PULSE"
          [] OTHER -> "NATURE"]

\* RegisterBand.shifted
shifted(band, semitones) == <<band[1] + semitones, band[2] + semitones>>

\* _extract_global_shift_semitones on the plan's rounded shift
extract_global_shift_semitones(shift) ==
    IF shift < -12 THEN -12 ELSE IF shift > 12 THEN 12 ELSE shift

\* _normalize_layer_name (the names used carry no surrounding blanks)
normalize_layer_name(layer_name) ==
    LET nm0 == Upper(layer_name)
        nm == IF nm0 \in DOMAIN LAYER_ALIAS THEN LAYER_ALIAS[nm0] ELSE nm0
    IN  IF layer_name = "" THEN "GENERIC"
        ELSE IF nm \notin DOMAIN DEFAULT_BANDS THEN "GENERIC" ELSE nm

\* _build_bands_with_shift_and_override; override_cfg is a sequence of
\* [name, min, max], a missing "min" or "max" being << >>; later entries win
RECURSIVE apply_register_override(_, _)
apply_register_override(bs, override_cfg) ==
    IF override_cfg = << >> THEN bs
    ELSE LET cfg0 == Head(override_cfg)
             lo == IF cfg0.min[1] > cfg0.max[1] THEN cfg0.max[1] ELSE cfg0.min[1]
             hi == IF cfg0.min[1] > cfg0.max[1] THEN cfg0.min[1] ELSE cfg0.max[1]
             key == normalize_layer_name(cfg0.name)
         IN  apply_register_override(
                 IF cfg0.min = << >> \/ cfg0.max = << >> THEN bs
                 ELSE [bs EXCEPT ![key] = <<lo, hi>>],
                 Tail(override_cfg))

build_bands_with_shift_and_override(shift, override_cfg) ==
    apply_register_override(
        [k \in DOMAIN DEFAULT_BANDS |-> shifted(DEFAULT_BANDS[k], shift)],
        override_cfg)

\* the band self.bands.get(key) yields, with its fallback
band_of(bs, shift, layer_name) ==
    LET key == normalize_layer_name(layer_name)
    IN  IF key \in DOMAIN bs THEN bs[key]
        ELSE shifted(DEFAULT_BANDS["GENERIC"], shift)

get_band(bs, shift, layer_name) == band_of(bs, shift, layer_name)

\* a clamp into the layer's default band
constrain_pitch_default_band(bs, shift, layer_name, pitch) ==
    LET band == DEFAULT_BANDS[normalize_layer_name(layer_name)]
    IN  IF pitch < band[1] THEN band[1]
        ELSE IF pitch > band[2] THEN band[2] ELSE pitch

constrain_pitch(bs, shift, layer_name, pitch) ==
    LET band == band_of(bs, shift, layer_name)
    IN  IF pitch < band[1] THEN band[1]
        ELSE IF pitch > band[2] THEN band[2] ELSE pitch

-----------------------------------------------------------------------------
(* TuningCoreV3: the tuning plan.  Strings carry no surrounding blanks; the
   planned frequency ratio is not part of the model. *)

normalize_mode(mode) ==
    LET m == Lower(mode)
    IN  IF mode = "" THEN "pure_key"
        ELSE IF m \in {"pure", "key", "pure-key", "pure_key"} THEN "pure_key"
        ELSE IF m \in {"solf", "solf_root", "solf-root", "follow_solf"}
             THEN "solf_root"
        ELSE IF m \in {"solf_dual", "dual_solf", "solf-dual"} THEN "solf_dual"
        ELSE IF m \in {"key_plus_solf_drone", "key+solf_drone", "key_solf_drone"}
             THEN "key_plus_solf_drone"
        ELSE "pure_key"

valid_keys ==
    {"C", "C#", "DB", "D", "D#", "EB", "E", "F", "F#", "GB", "G", "G#", "AB",
     "A", "A#", "BB", "B"}

normalize_key(key) ==
    LET k == Upper(key)
    IN  IF key = "" THEN "C"
        ELSE IF k \notin valid_keys THEN "C"
        ELSE CASE k = "DB" -> "C#" [] k = "EB" -> "D#" [] k = "GB" -> "F#"
               [] k = "AB" -> "G#" [] k = "BB" -> "A#" [] OTHER -> k

normalize_scale(scale) ==
    LET sc == Lower(scale)
    IN  IF scale = "" THEN "major"
        ELSE IF sc \in {"ionian", "maj", "major"} THEN "major"
        ELSE sc

\* _parse_solf_profile of None (<< >>), a number (<<p>>) or a list (<<p, q>>):
\* <<primary, secondary>>, each << >> (None) or <<hz>>
parse_solf_profile(raw) ==
    LET positive(v) == IF v > 0 THEN <<v>> ELSE << >>
    IN  IF raw = << >> THEN << << >>, << >> >>
        ELSE IF Len(raw) = 1 THEN <<positive(raw[1]), << >> >>
        ELSE <<positive(raw[1]), positive(raw[2])>>

\* _nearest_midi_from_freq with A4 = 440: round(69 + 12 log2(f / 440)) kept
\* in 0..127, as the code returns it for the anchor frequencies of the model
nearest_midi_from_freq(freq_hz) ==
    IF freq_hz <= 0 THEN 69
    ELSE CASE freq_hz = 20 -> 15
           [] freq_hz = 396 -> 67
           [] freq_hz = 528 -> 72
           [] freq_hz = 963 -> 83
           [] OTHER -> 69

\* the first loop of _suggest_drone_midi_from_solf: while base_m > 72
RECURSIVE fold_down(_)
fold_down(base_m) == IF base_m > 72 THEN fold_down(base_m - 12) ELSE base_m

\* the second loop: while base_m < 36
RECURSIVE fold_up(_)
fold_up(base_m) == IF base_m < 36 THEN fold_up(base_m + 12) ELSE base_m

\* a fold of one octave at most each way
fold_octaves_once(base_m) ==
    LET down == IF base_m > 72 THEN base_m - 12 ELSE base_m
    IN  Max(0, Min(127, IF down < 36 THEN down + 12 ELSE down))

\* _suggest_drone_midi_from_solf from the nearest note on
fold_octaves(base_m) == Max(0, Min(127, fold_up(fold_down(base_m))))

suggest_drone_midi_from_solf(solf_hz) ==
    fold_octaves(nearest_midi_from_freq(solf_hz))

\* 1200 log2(f / 440) rounded to a cent, for the anchor frequencies
cents_above_a4(freq_hz) ==
    CASE freq_hz = 20 -> -5351
      [] freq_hz = 396 -> -182
      [] freq_hz = 528 -> 316
      [] freq_hz = 963 -> 1356
      [] OTHER -> 0

\* _compute_planned_ratio: <<ratio, semitone shift>>, the ratio in
\* ten-thousandths as the code gives it for an anchor and its drone note, the
\* shift 12 log2(ratio) in cents
compute_planned_ratio(target_hz, midi_anchor) ==
    IF target_hz <= 0 THEN <<10000, 0>>
    ELSE << CASE target_hz = 20 -> 2571
              [] target_hz = 396 -> 10102
              [] target_hz = 528 -> 10091
              [] target_hz = 963 -> 19499
              [] OTHER -> 10000,
            cents_above_a4(target_hz) - 100 * (midi_anchor - 69) >>

\* the plan build_plan starts from
empty_plan(opts) ==
    [raised |-> FALSE,
     mode |-> normalize_mode(opts.drone_mode),
     base_key |-> normalize_key(opts.key),
     new_key |-> normalize_key(opts.key),
     scale |-> normalize_scale(opts.scale),
     register_shift |-> 0,
     primary_solf_hz |-> << >>, secondary_solf_hz |-> << >>,
     primary_drone_midi |-> << >>, secondary_drone_midi |-> << >>,
     global_ratio_planned |-> 10000,
     global_semitone_shift_planned |-> 0]

\* the branches of build_plan for the modes that read the anchors
solf_plan(opts, mode) ==
    LET solf == parse_solf_profile(opts.solf_profile)
        primary == solf[1]
        secondary == IF mode = "solf_dual" THEN solf[2] ELSE << >>
        drone(a) == IF a = << >> THEN << >>
                    ELSE <<suggest_drone_midi_from_solf(a[1])>>
        planned == IF primary = << >> THEN <<10000, 0>>
                   ELSE compute_planned_ratio(primary[1], drone(primary)[1])
    IN  [empty_plan(opts) EXCEPT
            !.primary_solf_hz = primary,
            !.secondary_solf_hz = secondary,
            !.primary_drone_midi = drone(primary),
            !.secondary_drone_midi = drone(secondary),
            !.global_ratio_planned =
                IF opts.enable_global_shift THEN planned[1] ELSE 10000,
            !.global_semitone_shift_planned =
                IF opts.enable_global_shift THEN planned[2] ELSE 0]

\* build_plan with the anchors read in every mode
build_plan_anchored(opts) == solf_plan(opts, normalize_mode(opts.drone_mode))

\* build_plan; no path of it raises on string options
build_plan(opts) ==
    LET mode == normalize_mode(opts.drone_mode)
    IN  IF mode = "pure_key" THEN empty_plan(opts) ELSE solf_plan(opts, mode)

-----------------------------------------------------------------------------
(* BreathSyncManager: breath arithmetic *)

\* int(x) of a fraction: truncation toward zero
IntOf(x) == IF x[1] >= 0 THEN x[1] \div x[2] ELSE -((-x[1]) \div x[2])

\* BreathSyncManager.__init__ on a tempo map: breath_cycle_bars is a fraction,
\* a zero value is replaced by 2.0, the breath length is at least one tick
BreathSyncManager_init(tm_ppq, tm_bars, enabled) ==
    LET bars == IF tm_bars[1] = 0 THEN Rat(2, 1) ELSE tm_bars
        bl == IntOf(RMul(bars, Rat(4 * tm_ppq, 1)))
    IN  [ppq |-> tm_ppq, breath_cycle_bars |-> bars,
         breath_length_ticks |-> IF bl < 1 THEN 1 ELSE bl,
         enabled |-> enabled]

breath_length_ticks == breath_sync.breath_length_ticks

\* the position without the wrap into one breath
get_breath_position_unwrapped(tick) ==
    LET t == IF tick < 0 THEN 0 ELSE tick
    IN  <<t \div breath_length_ticks, Rat(t, breath_length_ticks)>>

\* <<breath_index, phase>>
get_breath_position(tick) ==
    LET t == IF tick < 0 THEN 0 ELSE tick
    IN  <<t \div breath_length_ticks,
          Rat(t % breath_length_ticks, breath_length_ticks)>>

\* BreathPhaseConfig defaults, in hundredths
valley_center == Rat(15, 100)
peak_center == Rat(50, 100)
end_center == Rat(85, 100)
phase_width == Rat(30, 100)

in_band(phase, center) ==
    LET w == RMul(phase_width, Rat(1, 2))
    IN  RLe(RSub(center, w), phase) /\ RLe(phase, RAdd(center, w))

get_phase_tag(phase) ==
    IF in_band(phase, valley_center) THEN "valley"
    ELSE IF in_band(phase, peak_center) THEN "peak"
    ELSE IF in_band(phase, end_center) THEN "end"
    ELSE "free"

\* the public methods the class BreathSyncManager defines
BreathSyncManagerMethods ==
    {"reset_state", "get_breath_position", "get_phase_tag", "align_note",
     "describe"}

\* BreathPhaseConfig.max_shift_ratio and BreathSyncConfig.slot_division_per_breath
max_shift_ratio == Rat(25, 100)
slot_division_per_breath == 64

\* _build_default_config: the mode of each layer's rule, "free" for the others
get_rule_for_layer(layer) ==
    CASE layer = "pulse" -> "peak"
      [] layer = "melody" -> "valley"
      [] layer = "chime" -> "end"
      [] layer \in {"air", "drone", "harm", "binaural"} -> "follow"
      [] OTHER -> "free"

get_target_phase(mode) ==
    CASE mode = "valley" -> valley_center
      [] mode = "peak" -> peak_center
      [] mode = "end" -> end_center
      [] OTHER -> Zero

SlotCount(slots, key) == IF key \in DOMAIN slots THEN slots[key] ELSE 0

\* an allocator that moves every request by one slot
allocate_slot_unit_offset(slots, breath_index, phase_tag, base_tick) ==
    LET key == <<breath_index, phase_tag>>
        slot_size == Max(1, breath_length_ticks \div Max(1, slot_division_per_breath))
    IN  << base_tick + slot_size,
           [k \in DOMAIN slots \cup {key} |->
               IF k = key THEN SlotCount(slots, key) + 1 ELSE slots[k]] >>

\* an allocator that counts the requests and moves none
allocate_slot_without_offset(slots, breath_index, phase_tag, base_tick) ==
    LET key == <<breath_index, phase_tag>>
    IN  << base_tick,
           [k \in DOMAIN slots \cup {key} |->
               IF k = key THEN SlotCount(slots, key) + 1 ELSE slots[k]] >>

\* _allocate_slot: <<tick, slots>>
allocate_slot(slots, breath_index, phase_tag, base_tick) ==
    LET key == <<breath_index, phase_tag>>
        count == SlotCount(slots, key)
        div == Max(1, slot_division_per_breath)
        slot_size == Max(1, breath_length_ticks \div div)
    IN  << base_tick + count * slot_size,
           [k \in DOMAIN slots \cup {key} |->
               IF k = key THEN count + 1 ELSE slots[k]] >>

\* _align_tick_within_breath: <<tick, slots>>
align_tick_within_breath(slots, original_tick, breath_index, target, tag) ==
    LET bl == breath_length_ticks
        max_shift_ticks == IntOf(RMul(max_shift_ratio, Rat(bl, 1)))
        target_pos_tick == IntOf(RMul(target, Rat(bl, 1)))
        base0 == breath_index * bl + target_pos_tick
        delta == base0 - original_tick
        base_tick == IF Abs(delta) > max_shift_ticks
                     THEN IF delta > 0 THEN original_tick + max_shift_ticks
                          ELSE original_tick - max_shift_ticks
                     ELSE base0
        a == allocate_slot(slots, breath_index, tag, base_tick)
    IN  << IF a[1] < 0 THEN 0 ELSE a[1], a[2] >>

\* the mode align_note acts on; prefer_mode "None" stands for no override
effective_mode_of(layer, prefer_mode) ==
    IF prefer_mode = "free" THEN "free"
    ELSE IF prefer_mode # "None" THEN prefer_mode
    ELSE get_rule_for_layer(layer)

\* align_note shifting under every mode
align_note_every_mode(slots, layer, start_tick, prefer_mode) ==
    LET bp == get_breath_position(start_tick)
        mode == effective_mode_of(layer, prefer_mode)
        a == align_tick_within_breath(slots, start_tick, bp[1],
                                      get_target_phase(mode), mode)
    IN  [tick |-> a[1], tag |-> mode, breath_index |-> bp[1], slots |-> a[2]]

\* align_note: [tick, tag, breath_index, slots]
align_note(slots, layer, start_tick, prefer_mode) ==
    LET bp == get_breath_position(start_tick)
        tag == get_phase_tag(bp[2])
        mode == effective_mode_of(layer, prefer_mode)
        a == align_tick_within_breath(slots, start_tick, bp[1],
                                      get_target_phase(mode), mode)
    IN  IF ~breath_sync.enabled \/ mode \in {"free", "follow"}
        THEN [tick |-> start_tick, tag |-> tag, breath_index |-> bp[1],
              slots |-> slots]
        ELSE [tick |-> a[1], tag |-> mode, breath_index |-> bp[1],
              slots |-> a[2]]

-----------------------------------------------------------------------------
(* ActivityMap: configuration *)

base_movement_ratio == Rat(2, 10)
movement_ratio_gain == Rat(6, 10)
stillness_randomness == Rat(25, 100)
global_soft_limit == Rat(75, 100)
global_hard_limit == Rat(115, 100)
layer_soft_limit == Rat(10, 10)
layer_hard_limit == Rat(15, 10)

\* energy_weights.get(layer_key, 1.0), in tenths
energy_weight(layer_key) ==
    CASE layer_key = "MELODY" -> Rat(12, 10)
      [] layer_key = "HARM" -> Rat(10, 10)
      [] layer_key = "PULSE" -> Rat(10, 10)
      [] layer_key = "AIR" -> Rat(6, 10)
      [] layer_key = "CHIME" -> Rat(8, 10)
      [] layer_key = "NATURE" -> Rat(5, 10)
      [] layer_key = "VOCAL" -> Rat(11, 10)
      [] layer_key = "HANDPAN" -> Rat(12, 10)
      [] layer_key = "BASS" -> Rat(9, 10)
      [] layer_key = "BINAURAL" -> Rat(3, 10)
      [] layer_key = "DRONE" -> Rat(7, 10)
      [] OTHER -> One

\* ceil(a / b) for a >= 0, b > 0
CeilDiv(a, b) == (a + b - 1) \div b

\* __init__: the number of bins for a run of `total` ticks
num_bins_for(total) ==
    LET tt == IF total < 0 THEN 0 ELSE total
        bs == IF bin_size_ticks < 1 THEN 1 ELSE bin_size_ticks
        n == CeilDiv(tt, bs)
    IN  IF tt <= 0 THEN 1 ELSE IF n < 1 THEN 1 ELSE n

num_bins == num_bins_for(total_ticks)

ZeroBins(n) == [i \in 0..(n - 1) |-> 0]

\* _tick_to_bin
tick_to_bin(tick) ==
    IF num_bins <= 1 THEN 0
    ELSE LET idx == tick \div bin_size_ticks
         IN  IF idx < 0 THEN 0
             ELSE IF idx >= num_bins THEN num_bins - 1
             ELSE idx

\* _ensure_layer_bins: the dict after the key is ensured
ensure_layer_bins(lb, key) ==
    IF key \in DOMAIN lb THEN lb
    ELSE [k \in (DOMAIN lb) \cup {key} |->
            IF k = key THEN ZeroBins(num_bins) ELSE lb[k]]

\* the bins commit_event adds to, and what it adds to each
commit_span(start_tick, duration_ticks) ==
    LET start == IF start_tick < 0 THEN 0 ELSE start_tick
        e0 == start_tick + duration_ticks
        end == IF e0 < start THEN start ELSE e0
        start_bin == tick_to_bin(start)
        eb == tick_to_bin(end - 1)
        end_bin == IF eb < start_bin THEN start_bin ELSE eb
    IN  <<start_bin, end_bin>>

span_bins_of(sp) ==
    IF sp[2] - sp[1] + 1 < 1 THEN 1 ELSE sp[2] - sp[1] + 1

add_to_bins(bins, sp, per_bin) ==
    [i \in DOMAIN bins |->
        IF sp[1] <= i /\ i <= sp[2] /\ 0 <= i /\ i < num_bins
        THEN bins[i] + per_bin ELSE bins[i]]

\* a commit that stores its share in the bins instead of adding it
commit_event_overwriting(gb, lb, layer, start_tick, duration_ticks, weight) ==
    IF num_bins <= 0 \/ duration_ticks <= 0 THEN <<gb, lb>>
    ELSE LET key == Upper(layer)
             lb1 == ensure_layer_bins(lb, key)
             sp == commit_span(start_tick, duration_ticks)
             per_bin == weight \div span_bins_of(sp)
             put(bins) == [i \in DOMAIN bins |->
                             IF sp[1] <= i /\ i <= sp[2] THEN per_bin ELSE bins[i]]
         IN  <<put(gb), [lb1 EXCEPT ![key] = put(lb1[key])]>>

\* commit_event: <<global_bins, layer_bins>> after the call
commit_event(gb, lb, layer, start_tick, duration_ticks, weight) ==
    IF num_bins <= 0 \/ duration_ticks <= 0 THEN <<gb, lb>>
    ELSE LET key == Upper(layer)
             lb1 == ensure_layer_bins(lb, key)
             sp == commit_span(start_tick, duration_ticks)
             per_bin == weight \div span_bins_of(sp)
         IN  <<add_to_bins(gb, sp, per_bin),
               [lb1 EXCEPT ![key] = add_to_bins(lb1[key], sp, per_bin)]>>

\* add_activity: the legacy entry point, a plain commit_event
add_activity(gb, lb, start_tick, duration_ticks, weight, layer) ==
    commit_event(gb, lb, layer, start_tick, duration_ticks, weight)

RECURSIVE SumBins(_, _, _)
SumBins(bins, lo, hi) ==
    IF lo > hi THEN 0
    ELSE (IF lo \in DOMAIN bins THEN bins[lo] ELSE 0) + SumBins(bins, lo + 1, hi)

\* a smoothing window that is not cut at the ends of the map
density_window_uncut(tick) ==
    <<tick_to_bin(tick) - 1, tick_to_bin(tick) + 1>>

\* the smoothing window of _get_density: <<lo, hi>>
density_window(tick) ==
    LET idx == tick_to_bin(tick)
        lo == IF idx - 1 < 0 THEN 0 ELSE idx - 1
        hi == IF idx + 1 > num_bins - 1 THEN num_bins - 1 ELSE idx + 1
    IN  <<lo, hi>>

window_span(w) == IF w[2] - w[1] + 1 < 1 THEN 1 ELSE w[2] - w[1] + 1

\* _get_density: <<global_density, layer_density>>, as fractions of weight 1.0
get_density(gb, lb, layer, tick) ==
    LET w == density_window(tick)
        span == window_span(w)
        key == Upper(layer)
        one == Tenth(10)
    IN  << Rat(SumBins(gb, w[1], w[2]), span * one),
           IF key \notin DOMAIN lb THEN Zero
           ELSE Rat(SumBins(lb[key], w[1], w[2]), span * one) >>

-----------------------------------------------------------------------------
(* ActivityMap: the bins as the IEEE-754 doubles Python keeps in them *)

\* A double in {0} \cup [1/16, 4) is <<hi, lo>>, standing for
\* (hi * 2^28 + lo) * 2^-56 with 0 <= lo < 2^28.
Limb == 2 ^ 28

float_zero == <<0, 0>>

\* float(weight) for a weight given in tenths: 0.6, 0.8 and 1.0
float_of_tenths(tenths) ==
    CASE tenths = 6 -> <<161061273, 161061272>>
      [] tenths = 8 -> <<214748364, 214748368>>
      [] OTHER -> <<Limb, 0>>

\* the spacing of the doubles around <<hi, _>>, in units of 2^-56: a double
\* in [2^k, 2^(k+1)) has 53 significant bits, so its last bit is 2^(k-52)
float_ulp(hi) ==
    IF hi < 2 ^ 25 THEN 1
    ELSE IF hi < 2 ^ 26 THEN 2
    ELSE IF hi < 2 ^ 27 THEN 4
    ELSE IF hi < 2 ^ 28 THEN 8
    ELSE IF hi < 2 ^ 29 THEN 16
    ELSE 32

\* round to nearest double, ties to the even one
float_round(hi, lo) ==
    LET u == float_ulp(hi)
        r == lo % u
        base == lo - r
        up == (2 * r > u) \/ (2 * r = u /\ (base \div u) % 2 = 1)
        lo2 == IF up THEN base + u ELSE base
    IN  IF lo2 = Limb THEN <<hi + 1, 0>> ELSE <<hi, lo2>>

\* a + b on Python floats: the exact sum, rounded once
float_add(a, b) ==
    LET l == a[2] + b[2]
    IN  float_round(a[1] + b[1] + (l \div Limb), l % Limb)

float_ensure_layer_bins(lb, key) ==
    IF key \in DOMAIN lb THEN lb
    ELSE [k \in (DOMAIN lb) \cup {key} |->
            IF k = key THEN [i \in 0..(num_bins - 1) |-> float_zero] ELSE lb[k]]

float_add_to_bins(bins, sp, per_bin) ==
    [i \in DOMAIN bins |->
        IF sp[1] <= i /\ i <= sp[2] /\ 0 <= i /\ i < num_bins
        THEN float_add(bins[i], per_bin) ELSE bins[i]]

\* commit_event on a map of one bin, where span_bins is 1 and
\* per_bin = float(weight) / 1.0 is the weight itself
float_commit_event(gb, lb, layer, start_tick, duration_ticks, weight) ==
    IF num_bins <= 0 \/ duration_ticks <= 0 THEN <<gb, lb>>
    ELSE LET key == Upper(layer)
             lb1 == float_ensure_layer_bins(lb, key)
             sp == commit_span(start_tick, duration_ticks)
             per_bin == weight
         IN  <<float_add_to_bins(gb, sp, per_bin),
               [lb1 EXCEPT ![key] = float_add_to_bins(lb1[key], sp, per_bin)]>>

\* sum(bins[i] for bins in layer_bins.values()), starting from 0.0
RECURSIVE float_sum_layers(_, _, _)
float_sum_layers(lb, keys, i) ==
    IF keys = {} THEN float_zero
    ELSE LET k == CHOOSE x \in keys : TRUE
         IN  float_add(float_sum_layers(lb, keys \ {k}, i), lb[k][i])

\* a query that would create the voice's array the way commit_event does
query_bins_ensuring(gb, lb, layer, start_tick) ==
    <<gb, ensure_layer_bins(lb, Upper(layer))>>

\* query_decision: <<global_bins, layer_bins>> after the call.  The only
\* reader of the arrays is _get_density, which sums global_bins[i] and
\* bins[i] and tests `key not in self.layer_bins` without inserting the key.
query_bins(gb, lb, layer, start_tick) ==
    <<gb, lb>>

-----------------------------------------------------------------------------
(* ActivityMap: what it learns from its collaborators *)

\* _get_phase_info: <<phase_name, movement_bias>>.  Each hasattr probe is a
\* membership test on the methods the collaborator's class defines; a probed
\* method, where present, answers with the phase at the tick.
get_phase_info(tick) ==
    LET p == get_phase_for_tick(build_default_phases, tick, total_ticks)
    IN  IF "get_phase_at_tick" \in ZenArcMatrixMethods
        THEN <<p.name, clamp(p.movement_bias, Zero, One)>>
        ELSE << IF "get_phase_name_at_tick" \in ZenArcMatrixMethods
                THEN p.name ELSE "",
                IF "get_movement_bias_at_tick" \in ZenArcMatrixMethods
                THEN clamp(p.movement_bias, Zero, One) ELSE Rat(1, 2) >>

\* _get_breath_info: <<breath_index, breath_phase>>
get_breath_info(tick) ==
    LET bp == get_breath_position(tick)
    IN  IF "get_breath_info_at_tick" \in BreathSyncManagerMethods
        THEN <<bp[1], get_phase_tag(bp[2])>>
        ELSE << IF "get_breath_index_at_tick" \in BreathSyncManagerMethods
                THEN bp[1] ELSE 0,
                IF "get_breath_phase_at_tick" \in BreathSyncManagerMethods
                THEN get_phase_tag(bp[2]) ELSE "free" >>

RDiv(a, b) == Rat(a[1] * b[2], a[2] * b[1])      \* b > 0
SafeDen(x) == RMax(Rat(1, 1000000), x)           \* max(1e-6, x)

\* the factor query_decision applies to movement_ratio for a phase name
phase_factor(phase_lower) ==
    IF phase_lower \in {"grounding", "intro"} THEN Rat(6, 10)
    ELSE IF phase_lower = "breakdown" THEN Rat(3, 10)
    ELSE IF phase_lower \in {"integration", "outro"} THEN Rat(5, 10)
    ELSE IF phase_lower = "peak" THEN Rat(11, 10)
    ELSE One

\* a hard-limit step that looks at the layer alone
hard_limit_reason_layer_only(global_density, effective_layer_density) ==
    IF RLt(layer_hard_limit, effective_layer_density)
    THEN "layer_over_hard_limit" ELSE "ok"

\* the hard-limit step of query_decision: the reason, "ok" when none fired
hard_limit_reason(global_density, effective_layer_density) ==
    IF RLt(global_hard_limit, global_density) THEN "global_over_hard_limit"
    ELSE IF RLt(layer_hard_limit, effective_layer_density)
         THEN "layer_over_hard_limit"
    ELSE "ok"

\* query_decision with the two rng.random() draws r1 / RandSteps, r2 / RandSteps
\* (base_velocity = 1.0; the priority score is not part of the model; the
\* movement_bias the ratio started from is kept beside the decision's fields)
query_decision(gb, lb, layer, start_tick, r1, r2) ==
    LET layer_key == Upper(layer)
        pinfo == get_phase_info(start_tick)
        binfo == get_breath_info(start_tick)
        movement_bias == pinfo[2]
        mr0 == clamp(RAdd(base_movement_ratio,
                          RMul(movement_ratio_gain, movement_bias)), Zero, One)
        dens == get_density(gb, lb, layer_key, start_tick)
        global_density == dens[1]
        eff == RMul(dens[2], energy_weight(layer_key))
        hard == hard_limit_reason(global_density, eff)
        allow0 == (hard = "ok")
        g_soft == RLt(global_soft_limit, global_density)
        l_soft == RLt(layer_soft_limit, eff)
        alpha == clamp(RDiv(RSub(global_hard_limit, global_density),
                            SafeDen(RSub(global_hard_limit, global_soft_limit))),
                       Zero, One)
        beta == clamp(RDiv(RSub(layer_hard_limit, eff),
                           SafeDen(RSub(layer_hard_limit, layer_soft_limit))),
                      Zero, One)
        half == Rat(1, 2)
        dm1 == IF g_soft THEN RAdd(half, RMul(half, alpha)) ELSE One
        vm1 == IF g_soft THEN RAdd(Rat(7, 10), RMul(Rat(3, 10), alpha)) ELSE One
        dm2 == IF l_soft THEN RMul(dm1, RAdd(half, RMul(half, beta))) ELSE dm1
        vm2 == IF l_soft THEN RMul(vm1, RAdd(Rat(8, 10), RMul(Rat(2, 10), beta)))
               ELSE vm1
        reason1 == IF g_soft THEN "global_over_soft_limit"
                   ELSE IF l_soft THEN "layer_over_soft_limit" ELSE "ok"
        gate_rand == Rat(r1, RandSteps)
        mr1 == clamp(RMul(mr0, phase_factor(pinfo[1])), Zero, One)
        mr2 == IF binfo[2] \in {"valley", "end"} THEN RMul(mr1, Rat(7, 10)) ELSE mr1
        global_pressure == clamp(RDiv(global_density, SafeDen(global_hard_limit)),
                                 Zero, One)
        layer_pressure == clamp(RDiv(eff, SafeDen(layer_hard_limit)), Zero, One)
        density_pressure == RMax(global_pressure, layer_pressure)
        pressed == RLt(Zero, density_pressure)
        mr3 == IF pressed
               THEN RMul(mr2, RSub(One, RMul(half, density_pressure))) ELSE mr2
        reason2 == IF pressed /\ reason1 = "ok" THEN "density_pressure" ELSE reason1
        effective_gate ==
            clamp(RAdd(RMul(mr3, RSub(One, stillness_randomness)),
                       RMul(stillness_randomness, Rat(r2, RandSteps))), Zero, One)
        gated == RLt(effective_gate, gate_rand)
        reason3 == IF gated /\ reason2 = "ok" THEN "stillness_gate" ELSE reason2
    IN  [allow |-> allow0 /\ ~gated,
         density_mul |-> IF allow0 THEN clamp(dm2, Zero, Rat(2, 1)) ELSE One,
         velocity_mul |-> IF allow0 THEN clamp(vm2, Zero, Rat(2, 1)) ELSE One,
         phase_name |-> pinfo[1],
         breath_phase |-> binfo[2],
         breath_index |-> binfo[1],
         reason |-> IF allow0 THEN reason3 ELSE hard,
         movement_bias |-> movement_bias]

-----------------------------------------------------------------------------
(* The generators of a run *)

\* random.Random(seed): the n-th raw output of a generator seeded with seed.
\* The generator is a fixed function of seed and position, so two generators
\* seeded alike give one stream.
RawDraw(seed, n) == (seed * 7 + n * 5 + seed * n + 3) % 17

\* random(), as the numerator of a draw of query_decision
random_random(seed, n) == RawDraw(seed, n) % RandSteps

\* randint(lo, hi)
random_randint(seed, n, lo, hi) == lo + (RawDraw(seed, n) % (hi - lo + 1))

\* _normalize_seed: the seed of the options, or a fresh one when it is None
normalize_seed(option, fresh) == IF option # << >> THEN option[1] ELSE fresh

\* generate_zen_track and run_zen_core for one run: random.seed(seed) on the
\* module generator, then ActivityMap(..., rng_seed = seed) with its own rng
StartRun(seed, nbins) ==
    [seed |-> seed,
     rng |-> [seed |-> seed, pos |-> 0],
     random |-> [seed |-> seed, pos |-> 0],
     global_bins |-> ZeroBins(nbins),
     layer_bins |-> << >>,
     decisions |-> << >>,
     notes |-> << >>]

\* the hard-limit step of query_decision let the note through, so that the
\* two draws of the stillness gate are taken
hard_limit_passed(run, layer, start_tick) ==
    LET dens == get_density(run.global_bins, run.layer_bins, Upper(layer),
                            start_tick)
    IN  hard_limit_reason(dens[1], RMul(dens[2], energy_weight(Upper(layer))))
            = "ok"

\* query_decision on a run: the two draws are taken from self.rng
run_query_decision(run, layer, start_tick) ==
    [run EXCEPT
        !.decisions =
            Append(@, query_decision(run.global_bins, run.layer_bins, layer,
                           start_tick,
                           random_random(run.rng.seed, run.rng.pos),
                           random_random(run.rng.seed, run.rng.pos + 1))),
        !.rng.pos = IF hard_limit_passed(run, layer, start_tick)
                    THEN @ + 2 ELSE @]

\* commit_event on a run
run_commit_event(run, layer, start_tick, duration_ticks, weight) ==
    LET r == commit_event(run.global_bins, run.layer_bins, layer, start_tick,
                          duration_ticks, weight)
    IN  [run EXCEPT !.global_bins = r[1], !.layer_bins = r[2]]

vel_jitter == 8

\* ChimeEngine._compute_velocity(energy), energy in hundredths: base velocity
\* 80, master_intensity 0.5, no vel_bias; the jitter is drawn from the module
\* generator
compute_velocity(run, energy) ==
    LET delta_e == IntOf(RAdd(Rat(-12, 1), RMul(Rat(20, 1), Rat(energy, 100))))
        vel0 == IntOf(RMul(Rat(80 + delta_e, 1), Rat(9, 10)))
        vel == vel0 + random_randint(run.random.seed, run.random.pos,
                                     -vel_jitter, vel_jitter)
    IN  [run EXCEPT !.notes = Append(@, Max(1, Min(127, vel))),
                    !.random.pos = @ + 1]

-----------------------------------------------------------------------------
(* SafetyFilter: configuration and the guards of the pipeline *)

\* SafetyConfig() as the dataclass declares it
DefaultConfig ==
    [pitch_min |-> 0, pitch_max |-> 127,
     vel_min |-> 10, vel_max |-> 120, vel_soft_ceiling |-> 105,
     vel_step_up_max |-> 35, vel_step_down_max |-> 80,
     density_window_breaths |-> 2,
     density_soft_limit |-> 16, density_hard_limit |-> 32,
     density_drop_excess_notes |-> TRUE,
     shock_vel_jump_threshold |-> 40, shock_time_window_beats |-> 1,
     shock_damp_factor |-> Rat(6, 10),
     mix_energy_window_bars |-> Rat(1, 2), mix_energy_max |-> 12,
     mix_energy_soften_ratio |-> Rat(65, 100)]

\* _build_config with user_options["safety_filter"] lowering the density and
\* mix-energy limits, so that a few notes reach them
CrowdedConfig ==
    [DefaultConfig EXCEPT !.density_soft_limit = 0, !.density_hard_limit = 1,
                          !.mix_energy_max = 1]


\* int(round(n / d)) for n >= 0, d > 0: Python rounds halves to even
RoundHalfEven(n, d) ==
    LET q == n \div d
        r == n % d
    IN  IF 2 * r < d THEN q
        ELSE IF 2 * r > d THEN q + 1
        ELSE IF q % 2 = 0 THEN q ELSE q + 1

\* PitchSafety.enforce_pitch
enforce_pitch(c, pitch) ==
    IF pitch < c.pitch_min THEN c.pitch_min
    ELSE IF pitch > c.pitch_max THEN c.pitch_max
    ELSE pitch

\* VelocitySafety.enforce_velocity
enforce_velocity(c, velocity) ==
    IF velocity <= 0 THEN 0
    ELSE LET va == Min(127, velocity)
             vb == Min(c.vel_max, va)
             over == vb - c.vel_soft_ceiling
             span == Max(1, c.vel_max - c.vel_soft_ceiling)
             \* soft_ceiling + over * (1 - 0.5 * over / span)
             vc == IF vb > c.vel_soft_ceiling
                   THEN RoundHalfEven(
                            2 * span * c.vel_soft_ceiling + over * (2 * span - over),
                            2 * span)
                   ELSE vb
         IN  Max(0, Min(127, vc))

\* DensitySafety.__init__: the density window in ticks
density_window_ticks(c) ==
    Max(ppq, (ppq * 4 * breath_cycle_bars) * Max(1, c.density_window_breaths))

\* a pruning that also drops the ticks exactly one window old
RECURSIVE prune_old_at_threshold(_, _)
prune_old_at_threshold(lst, threshold) ==
    IF lst # << >> /\ Head(lst) <= threshold
    THEN prune_old_at_threshold(Tail(lst), threshold)
    ELSE lst

\* DensitySafety._prune_old: the leading ticks older than the window are dropped
RECURSIVE prune_old(_, _)
prune_old(lst, threshold) ==
    IF lst # << >> /\ Head(lst) < threshold THEN prune_old(Tail(lst), threshold)
    ELSE lst

\* DensitySafety.check_density on the pruned list: <<allow, vel_scale>>
check_density(c, evts) ==
    LET count == Len(evts)
        span == Max(1, c.density_hard_limit - c.density_soft_limit)
        over == count - c.density_soft_limit
    IN  IF count <= c.density_soft_limit THEN <<TRUE, One>>
        ELSE IF count >= c.density_hard_limit THEN <<FALSE, Rat(3, 10)>>
        ELSE <<TRUE, RMax(Rat(4, 10), RSub(One, RMul(Rat(6, 10), Rat(over, span))))>>

\* the public methods of the RegisterManager class each module provides
RegisterManagerMethods(rm) ==
    IF rm = "register_manager.RegisterManager"
    THEN {"get_band", "constrain_pitch", "safe_pitch", "clamp_pitch",
          "debug_print_bands"}
    ELSE {"get_layer_range"}       \* the class safety_filter.py falls back to

\* the fallback RegisterManager.get_layer_range
get_layer_range(layer, tick) == <<21, 108>>

\* RegisterSafety.enforce_register: the clamped pitch, or the AttributeError
\* of calling get_layer_range on a register manager that has none
enforce_register(rm, layer, pitch, tick) ==
    IF "get_layer_range" \notin RegisterManagerMethods(rm)
    THEN [raised |-> "AttributeError"]
    ELSE LET range == get_layer_range(layer, tick)
             low == Min(range[1], range[2])
             high == Max(range[1], range[2])
         IN  [raised |-> "",
              pitch |-> IF pitch < low THEN low
                        ELSE IF pitch > high THEN high ELSE pitch]

\* int(v * 0.7) for 0 <= v <= 127: the float product 90 * 0.7 lies just under 63
TimesSevenTenths(v) == IF v = 90 THEN 62 ELSE (v * 7) \div 10

\* meta = None, and a meta dict with its phase_energy (in hundredths) and
\* section_type as adjust reads them
NoMeta == [given |-> FALSE]
Meta(phase_energy, section_type) ==
    [given |-> TRUE, phase_energy |-> phase_energy, section_type |-> section_type]

\* TimbreSafety.adjust
adjust(c, layer, velocity, meta) ==
    IF ~meta.given THEN Max(c.vel_min, Min(c.vel_max, velocity))
    ELSE LET va == IF layer = "air" /\ meta.phase_energy > 80
                   THEN (velocity * 8) \div 10 ELSE velocity
             vb == IF layer = "chime" /\ meta.section_type \in
                                    {"breakdown", "silent_breakdown", "bridge"}
                   THEN TimesSevenTenths(va) ELSE va
         IN  Max(c.vel_min, Min(c.vel_max, vb))

\* a dict with one key set
Put(f, k, v) == [x \in (DOMAIN f) \cup {k} |-> IF x = k THEN v ELSE f[x]]

\* ShockGuard.enforce: <<velocity, is_shock, _last afterwards>>
ShockGuard_enforce(c, last, layer, velocity, tick) ==
    LET window == ppq * c.shock_time_window_beats
        dt == Abs(tick - last[layer][1])
        dv == Abs(velocity - last[layer][2])
        is_shock == /\ layer \in DOMAIN last
                    /\ dt <= window
                    /\ dv >= c.shock_vel_jump_threshold
        v == IF is_shock
             THEN RoundHalfEven(velocity * c.shock_damp_factor[1],
                                c.shock_damp_factor[2])
             ELSE velocity
        out == Max(0, Min(127, v))
    IN  <<out, is_shock, Put(last, layer, <<tick, out>>)>>

\* the events of the mix window that are not older than the cutoff
RECURSIVE mix_prune(_, _)
mix_prune(events, cutoff) ==
    IF events # << >> /\ Head(events)[1] < cutoff
    THEN mix_prune(Tail(events), cutoff)
    ELSE events

RECURSIVE mix_sum(_)
mix_sum(events) ==
    IF events = << >> THEN 0 ELSE Head(events)[2] + mix_sum(Tail(events))

\* MixEnergyGuard.enforce: <<velocity, softened, _events afterwards>>.
\* An event's energy v / 127 is kept as the integer v.
MixEnergyGuard_enforce(c, events, velocity, tick) ==
    IF c.mix_energy_window_bars[1] <= 0 \/ c.mix_energy_max <= 0
    THEN <<velocity, FALSE, events>>
    ELSE LET window == (c.mix_energy_window_bars[1] * 4 * ppq)
                           \div c.mix_energy_window_bars[2]
             kept == mix_prune(events, tick - window)
             energy(v) == Max(0, Min(127, v))
             softened == mix_sum(kept) + energy(velocity) > 127 * c.mix_energy_max
             v == IF softened
                  THEN Max(8, RoundHalfEven(
                                velocity * c.mix_energy_soften_ratio[1],
                                c.mix_energy_soften_ratio[2]))
                  ELSE velocity
         IN  <<v, softened, Append(kept, <<tick, energy(v)>>)>>

\* the per-layer velocity step limit of apply_note (step 3b)
step_limit(c, last_velocity, layer, v0) ==
    IF layer \notin DOMAIN last_velocity THEN v0
    ELSE LET last_v == last_velocity[layer]
             delta == v0 - last_v
         IN  IF delta > c.vel_step_up_max THEN last_v + c.vel_step_up_max
             ELSE IF delta < -c.vel_step_down_max
                  THEN Max(c.vel_min, last_v - c.vel_step_down_max)
             ELSE v0

\* the state a SafetyFilter keeps between calls
SafetyState(lv, sl, de, me) ==
    [last_velocity |-> lv, shock_last |-> sl, density_events |-> de,
     mix_events |-> me]

\* a pipeline that hands the note back as it came
apply_note_passthrough(rm, c, st, layer, pitch, velocity, tick, meta) ==
    [kind |-> "returned", pitch |-> pitch, velocity |-> velocity,
     allow |-> velocity > 0, state |-> st]

\* SafetyFilter.apply_note: what the call returns (or that it raised) and the
\* state it leaves
apply_note(rm, c, st, layer, pitch, velocity, tick, meta) ==
    LET p0 == enforce_pitch(c, pitch)
        p1 == enforce_register(rm, layer, p0, tick)
        v0 == step_limit(c, st.last_velocity, layer, enforce_velocity(c, velocity))
        shock == ShockGuard_enforce(c, st.shock_last, layer, v0, tick)
        v1 == shock[1]
        evts == IF layer \in DOMAIN st.density_events
                THEN prune_old(st.density_events[layer],
                               tick - density_window_ticks(c))
                ELSE << >>
        pruned == IF layer \in DOMAIN st.density_events
                  THEN Put(st.density_events, layer, evts)
                  ELSE st.density_events
        dens == check_density(c, evts)
        v2 == RoundHalfEven(v1 * dens[2][1], dens[2][2])
        v3 == adjust(c, layer, v2, meta)
        mix == MixEnergyGuard_enforce(c, st.mix_events, v3, tick)
        v4 == mix[1]
        allow == /\ v4 > 0
                 /\ dens[1] \/ (~c.density_drop_excess_notes /\ v4 >= c.vel_min)
        final_vel == IF allow /\ v4 < c.vel_min THEN c.vel_min ELSE v4
    IN  IF p1.raised # ""
        THEN [kind |-> "raised", state |-> st]
        ELSE [kind |-> "returned",
              pitch |-> p1.pitch,
              velocity |-> Max(0, Min(127, final_vel)),
              allow |-> allow,
              state |-> SafetyState(
                  IF allow THEN Put(st.last_velocity, layer, final_vel)
                  ELSE st.last_velocity,
                  shock[3],
                  IF allow THEN Put(pruned, layer, Append(evts, tick))
                  ELSE pruned,
                  mix[3])]

-----------------------------------------------------------------------------
(* Inputs *)

HalfBin == bin_size_ticks \div 2

\* run lengths: none, and 2..MaxBins whole bins
TotalTicksInputs == {0} \cup {bin_size_ticks * k : k \in 2..MaxBins}

\* start ticks: before the timeline, inside it, and past its end
TickInputs ==
    {-bin_size_ticks, HalfBin, bin_size_ticks, bin_size_ticks * (MaxBins + 1)}

\* query ticks also reach the later parts of a breath and the second breath
QueryTickInputs ==
    {HalfBin, bin_size_ticks + HalfBin, breath_length_ticks \div 2,
     breath_length_ticks + HalfBin}

DurationInputs == {HalfBin, 3 * bin_size_ticks}
WeightInputs == {Tenth(5), Tenth(20)}
LayerInputs == {"melody"}
RandInputs == 0..(RandSteps - 1)

NoDecision == [allow |-> FALSE, reason |-> "none"]
NoCall == [op |-> "none"]

Call(op, layer, start_tick, duration_ticks, weight) ==
    [op |-> op, layer |-> layer, start_tick |-> start_tick,
     duration_ticks |-> duration_ticks, weight |-> weight]

-----------------------------------------------------------------------------
(* The ActivityMap and its three entry points, under an arbitrary caller *)

InitMap ==
    /\ total_ticks \in TotalTicksInputs
    /\ global_bins = ZeroBins(num_bins_for(total_ticks))
    /\ layer_bins = << >>
    /\ decision = NoDecision
    /\ last_call = NoCall
    /\ ncommits = 0

\* one commit_event call, whoever makes it
DoCommit(op, layer, start_tick, duration_ticks, weight) ==
    LET r == commit_event(global_bins, layer_bins, layer, start_tick,
                          duration_ticks, weight)
    IN  /\ ncommits < MaxCommits
        /\ global_bins' = r[1]
        /\ layer_bins' = r[2]
        /\ last_call' = Call(op, layer, start_tick, duration_ticks, weight)
        /\ ncommits' = ncommits + 1
        /\ decision' = NoDecision
        /\ UNCHANGED total_ticks

CommitEvent ==
    \E layer \in LayerInputs, t \in TickInputs, d \in DurationInputs,
       w \in WeightInputs :
        /\ DoCommit("commit_event", layer, t, d, w)
        /\ UNCHANGED runVars

AddActivity ==
    \E t \in TickInputs, d \in DurationInputs, w \in WeightInputs :
        /\ LET r == add_activity(global_bins, layer_bins, t, d, w, "GLOBAL")
           IN  /\ ncommits < MaxCommits
               /\ global_bins' = r[1]
               /\ layer_bins' = r[2]
               /\ last_call' = Call("add_activity", "GLOBAL", t, d, w)
               /\ ncommits' = ncommits + 1
        /\ decision' = NoDecision
        /\ UNCHANGED total_ticks
        /\ UNCHANGED runVars

QueryDecision ==
    \E layer \in LayerInputs, t \in QueryTickInputs,
       r1 \in RandInputs, r2 \in RandInputs :
        /\ decision' = query_decision(global_bins, layer_bins, layer, t, r1, r2)
        /\ last_call' = Call("query_decision", layer, t, 0, 0)
        /\ global_bins' = query_bins(global_bins, layer_bins, layer, t)[1]
        /\ layer_bins' = query_bins(global_bins, layer_bins, layer, t)[2]
        /\ UNCHANGED <<total_ticks, ncommits>>
        /\ UNCHANGED runVars

\* BreathSyncManager(tempo_map, user_options) as run_zen_core builds it
NoBreathCall == [op |-> "none"]

InitBreath ==
    /\ breath_sync = BreathSyncManager_init(ppq, Rat(breath_cycle_bars, 1), TRUE)
    /\ slots_used = << >>
    /\ breath_call = NoBreathCall
    /\ nalign = 0
    /\ align_log = << >>

\* ZenArcMatrix(user_options) without a "zen_arc" section
NoPhaseCall == [op |-> "none"]

InitZenArc ==
    /\ timeline = << >>
    /\ phases = ZenArcMatrix_init(<< >>)
    /\ phase_call = NoPhaseCall

\* StructureBuilder as run_zen_core builds it: key C, major, no options that
\* concern it, two bars per breath, 60 beats per minute
NoBuildCall == [op |-> "none"]

StructureBuilder_init(scale_major, custom, breaths, cycle_bars, avg_bpm) ==
    [scale_major |-> scale_major, custom_chord_progression |-> custom,
     breaths_per_chord |-> breaths,
     cycle_bars |-> IF cycle_bars[1] = 0 THEN One ELSE cycle_bars,
     avg_bpm |-> avg_bpm, ppq |-> ppq]

InitStruct ==
    /\ struct_builder = StructureBuilder_init(TRUE, << >>, << >>,
                                               Rat(breath_cycle_bars, 1), 60)
    /\ segments = << >>
    /\ build_call = NoBuildCall

\* RegisterManager without a planned shift or overrides
NoPitchCall == [op |-> "none"]

InitRegister ==
    /\ global_shift_semitones = extract_global_shift_semitones(0)
    /\ bands = build_bands_with_shift_and_override(global_shift_semitones, << >>)
    /\ pitch_call = NoPitchCall

\* TuningCoreV3(user_options) with the options _validate_options leaves
NoPlan == [raised |-> FALSE, mode |-> "none"]
NoDroneCall == [op |-> "none"]

TuningOptions(key, scale, drone_mode, solf_profile, enable_global_shift) ==
    [key |-> key, scale |-> scale, drone_mode |-> drone_mode,
     solf_profile |-> solf_profile, enable_global_shift |-> enable_global_shift]

InitTuning ==
    /\ tuning_options = TuningOptions("C", "major", "pure_key", << >>, FALSE)
    /\ tuning_plan = NoPlan
    /\ drone_call = NoDroneCall

\* no pair of runs under comparison
InitSeed ==
    /\ seed_option = << >>
    /\ runs = << >>
    /\ draw_sources = {}
    /\ nseed = 0

InitCore ==
    /\ InitBreath /\ InitZenArc /\ InitStruct /\ InitRegister /\ InitTuning
    /\ InitSeed

\* every component but one as the orchestrator builds it
InitCoreExcept(own) ==
    /\ IF own = "breath_sync" THEN TRUE ELSE InitBreath
    /\ IF own = "zen_arc" THEN TRUE ELSE InitZenArc
    /\ IF own = "struct_builder" THEN TRUE ELSE InitStruct
    /\ IF own = "register_manager" THEN TRUE ELSE InitRegister
    /\ IF own = "tuning_core" THEN TRUE ELSE InitTuning
    /\ IF own = "seed" THEN TRUE ELSE InitSeed

NoResult == [kind |-> "none"]
EmptySafety == SafetyState(<< >>, << >>, << >>, << >>)

\* SafetyFilter.__init__ as run_zen_core calls it: the repository's
\* RegisterManager, no safety_filter options
InitSafety ==
    /\ register_manager = "register_manager.RegisterManager"
    /\ cfg = DefaultConfig
    /\ safety = EmptySafety
    /\ result = NoResult
    /\ napply = 0
    /\ apply_log = << >>

InitRunVars ==
    /\ scenario = "none" /\ commit_log = {} /\ query_log = {} /\ engine_pc = 0
    /\ InitSafety
    /\ InitCore

Init == InitMap /\ InitRunVars

Next == CommitEvent \/ AddActivity \/ QueryDecision

Spec == Init /\ [][Next]_vars

-----------------------------------------------------------------------------
(* Admission fairness: from an empty map, equal events committed into one bin *)

\* offsets and lengths that keep an event inside its bin
FairOffsets == {0, HalfBin}
FairDurations == {1, HalfBin}

InitFair ==
    /\ InitMap
    /\ scenario \in [layer : LayerInputs, weight : WeightInputs,
                     bin : 0..(num_bins_for(total_ticks) - 1)]
    /\ commit_log = {} /\ query_log = {} /\ engine_pc = 0
    /\ InitSafety
    /\ InitCore

FairCommit ==
    \E off \in FairOffsets, d \in FairDurations :
        /\ off + d <= bin_size_ticks
        /\ DoCommit("commit_event", scenario.layer,
                    scenario.bin * bin_size_ticks + off, d, scenario.weight)
        /\ UNCHANGED runVars

NextFair == FairCommit

SpecFair == InitFair /\ [][NextFair]_vars

-----------------------------------------------------------------------------
(* The SafetyFilter under an arbitrary caller *)

SafetyLayers == {"air", "chime"}
PitchInputs == {-50, 60, 200}
VelocityInputs == {-50, 0, 1, 60, 200}
ApplyTicks == {0, ppq \div 2, 9000 + ppq}
MetaInputs == {NoMeta, Meta(90, "breakdown")}

\* the RegisterManager of register_manager.py, or the class safety_filter.py
\* defines in its place when that module cannot be imported
RegisterManagerClasses ==
    {"register_manager.RegisterManager", "safety_filter.RegisterManager"}

InitSafetyAny ==
    /\ InitMap /\ total_ticks = 0
    /\ scenario = "none" /\ commit_log = {} /\ query_log = {} /\ engine_pc = 0
    /\ register_manager \in RegisterManagerClasses
    /\ cfg \in {DefaultConfig, CrowdedConfig}
    /\ safety = EmptySafety
    /\ result = NoResult
    /\ napply = 0
    /\ apply_log = << >>
    /\ InitCore

\* the record kept of one apply_note call
ResultOf(a, layer, velocity, tick) ==
    IF a.kind = "raised"
    THEN [kind |-> "raised", layer |-> layer, velocity_in |-> velocity,
          tick |-> tick]
    ELSE [kind |-> "returned", layer |-> layer, velocity_in |-> velocity,
          tick |-> tick, pitch |-> a.pitch, velocity |-> a.velocity,
          allow |-> a.allow]

ApplyNote ==
    \E layer \in SafetyLayers, pitch \in PitchInputs, velocity \in VelocityInputs,
       tick \in ApplyTicks, meta \in MetaInputs :
        LET a == apply_note(register_manager, cfg, safety, layer, pitch,
                            velocity, tick, meta)
        IN  /\ napply < MaxApply
            /\ safety' = a.state
            /\ result' = ResultOf(a, layer, velocity, tick)
            /\ napply' = napply + 1
            /\ UNCHANGED <<mapVars, coreVars, scenario, commit_log, query_log, engine_pc,
                           register_manager, cfg, apply_log>>

\* SafetyFilter.reset_state
ResetState ==
    /\ safety # EmptySafety
    /\ safety' = EmptySafety
    /\ UNCHANGED <<mapVars, coreVars, scenario, commit_log, query_log, engine_pc,
                   register_manager, cfg, result, napply, apply_log>>

NextSafety == ApplyNote \/ ResetState

SpecSafety == InitSafetyAny /\ [][NextSafety]_vars

-----------------------------------------------------------------------------
(* A generation run: the engines, in the orchestrator's order, each writing *)
(* its notes and committing them to the shared ActivityMap                  *)

\* the engines that commit activity, in the order run_zen_core renders them
EngineOrder == <<"melody", "drone", "chime", "bass", "handpan", "nature", "vocal">>

RunTicks == {0, bin_size_ticks}
RunDurations == {HalfBin, 3 * bin_size_ticks}

AtEngine(name) ==
    engine_pc \in DOMAIN EngineOrder /\ EngineOrder[engine_pc] = name

\* an engine's commit through commit_event(layer=self.layer_name, ...)
EngineCommitEvent(layer, t, d, weight) ==
    /\ DoCommit("commit_event", layer, t, d, weight)
    /\ commit_log' = commit_log \cup {<<Upper(layer), t>>}

\* an engine's commit through the legacy add_activity(t, d[, weight])
EngineAddActivity(t, d, weight) ==
    /\ LET r == add_activity(global_bins, layer_bins, t, d, weight, "GLOBAL")
       IN  /\ ncommits < MaxCommits
           /\ global_bins' = r[1]
           /\ layer_bins' = r[2]
           /\ last_call' = Call("add_activity", "GLOBAL", t, d, weight)
           /\ ncommits' = ncommits + 1
           /\ decision' = NoDecision
           /\ UNCHANGED total_ticks
    /\ commit_log' = commit_log \cup {<<"GLOBAL", t>>}

\* MelodyEngine.render: one note written, then committed with weight 1.0
MelodyRenderNote ==
    \E t \in RunTicks, d \in RunDurations :
        /\ AtEngine("melody")
        /\ EngineCommitEvent("melody", t, d, Tenth(10))
        /\ UNCHANGED <<coreVars, scenario, query_log, engine_pc, safetyVars>>

\* DroneEngine.render: the drone notes written, then one commit of weight 0.3
DroneRender ==
    \E t \in RunTicks, d \in RunDurations :
        /\ AtEngine("drone")
        /\ EngineCommitEvent("drone", t, d, Tenth(3))
        /\ engine_pc' = engine_pc + 1
        /\ UNCHANGED <<coreVars, scenario, query_log, safetyVars>>

\* ChimeEngine.render: one note drawn and passed through apply_note; a note
\* the filter denies is skipped, and a call that raises is ignored (except
\* Exception: pass); then the note is written and add_activity(t, dur) called
ChimeRenderNote ==
    \E t \in RunTicks, d \in RunDurations, pitch \in {72}, vel \in {60} :
        LET a == apply_note(register_manager, cfg, safety, "chime", pitch, vel,
                            t, Meta(50, "breakdown"))
        IN  /\ AtEngine("chime")
            /\ safety' = a.state
            /\ result' = ResultOf(a, "chime", vel, t)
            /\ napply' = napply + 1
            /\ IF a.kind = "returned" /\ ~a.allow
               THEN UNCHANGED <<mapVars, commit_log>>
               ELSE EngineAddActivity(t, d, Tenth(10))
            /\ UNCHANGED <<coreVars, scenario, query_log, engine_pc, register_manager, cfg,
                           apply_log>>

\* BassEngine.render: one segment rendered, then committed with weight 0.5
BassRenderSegment ==
    \E t \in RunTicks, d \in RunDurations :
        /\ AtEngine("bass")
        /\ EngineCommitEvent("bass", t, d, Tenth(5))
        /\ UNCHANGED <<coreVars, scenario, query_log, engine_pc, safetyVars>>

\* HandpanEngine._commit_activity: add_activity(seg.start, seg.duration, 0.6)
HandpanCommitActivity ==
    \E t \in RunTicks, d \in RunDurations :
        /\ AtEngine("handpan")
        /\ EngineAddActivity(t, d, Tenth(6))
        /\ UNCHANGED <<coreVars, scenario, query_log, engine_pc, safetyVars>>

\* NatureEngine: one note written, then add_activity(t, d, 0.4)
NatureAddNote ==
    \E t \in RunTicks, d \in RunDurations :
        /\ AtEngine("nature")
        /\ EngineAddActivity(t, d, Tenth(4))
        /\ UNCHANGED <<coreVars, scenario, query_log, engine_pc, safetyVars>>

\* VocalEngine: one note written, then add_activity(start, dur, 1.0)
VocalAddNote ==
    \E t \in RunTicks, d \in RunDurations :
        /\ AtEngine("vocal")
        /\ EngineAddActivity(t, d, Tenth(10))
        /\ UNCHANGED <<coreVars, scenario, query_log, engine_pc, safetyVars>>

\* an engine's render returns and the orchestrator moves to the next engine
NextEngine ==
    /\ engine_pc \in DOMAIN EngineOrder
    /\ engine_pc' = engine_pc + 1
    /\ UNCHANGED <<mapVars, coreVars, scenario, commit_log, query_log, safetyVars>>

\* no engine calls query_decision, so no step of a run adds to query_log
InitRun ==
    /\ InitMap
    /\ total_ticks > 0
    /\ scenario = "none" /\ commit_log = {} /\ query_log = {}
    /\ engine_pc = 1
    /\ InitSafety
    /\ InitCore

NextRun ==
    \/ MelodyRenderNote \/ DroneRender \/ ChimeRenderNote \/ BassRenderSegment
    \/ HandpanCommitActivity \/ NatureAddNote \/ VocalAddNote \/ NextEngine

SpecRun == InitRun /\ [][NextRun]_vars

-----------------------------------------------------------------------------
(* The BreathSyncManager under an arbitrary caller *)

\* tempo maps: breath_cycle_bars 1.0 ("flow"), 2.0 ("auto"/"deep"), 1.5
BreathCycleInputs == {Rat(1, 1), Rat(2, 1), Rat(3, 2)}
\* a layer with rule "end", one with rule "follow", one without a rule
AlignLayers == {"chime", "air", "handpan"}
PreferModes == {"None", "valley", "peak", "free"}
\* ticks of the first two breaths of the longest cycle, and one before zero
AlignTicks == {-ppq, 0, 2 * ppq, 5 * ppq, 12 * ppq}

\* the other objects of a run, idle
InitLegacy ==
    /\ InitMap /\ total_ticks = 0
    /\ scenario = "none" /\ commit_log = {} /\ query_log = {} /\ engine_pc = 0
    /\ InitSafety

InitBreathAny ==
    /\ InitLegacy
    /\ InitCoreExcept("breath_sync")
    /\ \E bars \in BreathCycleInputs, enabled \in BOOLEAN :
          breath_sync = BreathSyncManager_init(ppq, bars, enabled)
    /\ slots_used = << >>
    /\ breath_call = NoBreathCall
    /\ nalign = 0
    /\ align_log = << >>

UnchangedByBreath ==
    UNCHANGED <<legacyVars, zenArcVars, structVars, registerVars, tuningVars, seedVars>>

\* one align_note call; the calls that took a slot are kept in align_log
\* where the run follows them
AlignNoteCall(layer, tick, prefer, limit, logged) ==
    LET a == align_note(slots_used, layer, tick, prefer)
    IN  /\ nalign < limit
        /\ slots_used' = a.slots
        /\ breath_call' =
              [op |-> "align_note", layer |-> layer, start_tick |-> tick,
               mode |-> effective_mode_of(layer, prefer),
               count |-> SlotCount(slots_used,
                             <<a.breath_index, effective_mode_of(layer, prefer)>>),
               tick |-> a.tick, tag |-> a.tag,
               breath_index |-> a.breath_index]
        /\ nalign' = nalign + 1
        /\ align_log' =
              IF ~logged \/ a.slots = slots_used THEN align_log
              ELSE Append(align_log,
                       [start_tick |-> tick,
                        mode |-> effective_mode_of(layer, prefer),
                        tick |-> a.tick, breath_index |-> a.breath_index])
        /\ UNCHANGED breath_sync
        /\ UnchangedByBreath

AlignNote ==
    \E layer \in AlignLayers, tick \in AlignTicks, prefer \in PreferModes :
        AlignNoteCall(layer, tick, prefer, MaxAlign, FALSE)

GetBreathPosition ==
    \E tick \in AlignTicks \cup {breath_length_ticks, breath_length_ticks + breath_length_ticks \div 2} :
        LET bp == get_breath_position(tick)
        IN  /\ breath_call' =
                  [op |-> "get_breath_position", start_tick |-> tick,
                   breath_index |-> bp[1], phase |-> bp[2]]
            /\ UNCHANGED <<breath_sync, slots_used, nalign, align_log>>
            /\ UnchangedByBreath

\* BreathSyncManager.reset_state
BreathResetState ==
    /\ slots_used # << >>
    /\ slots_used' = << >>
    /\ align_log' = << >>
    /\ breath_call' = [op |-> "reset_state"]
    /\ UNCHANGED <<breath_sync, nalign>>
    /\ UnchangedByBreath

NextBreath == AlignNote \/ GetBreathPosition \/ BreathResetState

SpecBreath == InitBreathAny /\ [][NextBreath]_vars

-----------------------------------------------------------------------------
(* The ZenArcMatrix under an arbitrary configuration and caller *)

RatioSteps == 50      \* ratios queried are k / RatioSteps

\* "timeline" sections: none; one that moves a shared boundary; one that moves
\* a single phase; one with end before start; one out of [0, 1] that also
\* reorders the phases; one for a phase that does not exist
TimelineInputs ==
    { << >>,
      << <<"grounding", Zero, Rat(1, 5)>>, <<"immersion", Rat(1, 5), Rat(21, 50)>> >>,
      << <<"immersion", Rat(1, 2), Rat(9, 10)>> >>,
      << <<"breakdown", Rat(9, 10), Rat(1, 10)>> >>,
      << <<"integration", Rat(-1, 2), Rat(1, 10)>> >>,
      << <<"coda", Zero, One>> >> }

RatioInputs == {Rat(k, RatioSteps) : k \in 0..RatioSteps}

InitZenArcAny ==
    /\ InitLegacy
    /\ InitCoreExcept("zen_arc")
    /\ timeline \in TimelineInputs
    /\ phases = ZenArcMatrix_init(timeline)
    /\ phase_call = NoPhaseCall

GetPhaseByRatio ==
    \E r \in RatioInputs :
        /\ phase_call' = [op |-> "get_phase_by_ratio", ratio |-> r,
                          phase |-> get_phase_by_ratio(phases, r)]
        /\ UNCHANGED <<timeline, phases>>
        /\ UNCHANGED <<legacyVars, breathVars, structVars, registerVars, tuningVars, seedVars>>

NextZenArc == GetPhaseByRatio

SpecZenArc == InitZenArcAny /\ [][NextZenArc]_vars

-----------------------------------------------------------------------------
(* The StructureBuilder under an arbitrary configuration and caller *)

\* custom_chord_progression after parse_progression_string: none, or
\* "<Intro> C <Verse> Am <Chorus> F"
ProgressionInputs ==
    { << >>, << <<"C", "Intro">>, <<"Am", "Verse">>, <<"F", "Chorus">> >> }
BreathsInputs == {<< >>, <<0>>, <<2>>}
CycleBarsInputs == {Rat(1, 1), Rat(2, 1)}
\* total_seconds: negative, zero, shorter than one chord, a whole number of
\* chords, and lengths that cut the last chord
TotalSecondsInputs == {-5, 0, 1, 4, 10, 16, 33, 70}

InitStructAny ==
    /\ InitLegacy
    /\ InitCoreExcept("struct_builder")
    /\ \E scale_major \in BOOLEAN, custom \in ProgressionInputs,
          breaths \in BreathsInputs, bars \in CycleBarsInputs :
          struct_builder = StructureBuilder_init(scale_major, custom, breaths,
                                                 bars, 60)
    /\ segments = << >>
    /\ build_call = NoBuildCall

BuildSegments ==
    \E total_seconds \in TotalSecondsInputs :
        LET b == build_segments(struct_builder, phases, total_seconds)
        IN  /\ segments' = b.segments
            /\ build_call' = [op |-> "build_segments",
                              total_seconds |-> total_seconds,
                              total_ticks |-> b.total_ticks, raised |-> b.raised]
            /\ UNCHANGED struct_builder
            /\ UNCHANGED <<legacyVars, breathVars, zenArcVars, registerVars, tuningVars, seedVars>>

NextStruct == BuildSegments

SpecStruct == InitStructAny /\ [][NextStruct]_vars

-----------------------------------------------------------------------------
(* The RegisterManager under an arbitrary configuration and caller *)

\* the tuning plan's shift before the clamp to [-12, 12]
ShiftInputs == {-20, 0, 5, 15}

Override(name, lo, hi) == [name |-> name, min |-> lo, max |-> hi]

\* register_override sections: none; a canonical layer; an alias with min and
\* max exchanged, far above the default; an unknown name; an entry without max
OverrideInputs ==
    { << >>,
      << Override("BASS", <<38>>, <<60>>) >>,
      << Override("LEAD", <<140>>, <<130>>) >>,
      << Override("ZITHER", <<-10>>, <<10>>) >>,
      << Override("MELODY", <<62>>, << >>), Override("melody", <<-60>>, <<-55>>) >> }

\* canonical, lower-case, aliased, unrecognized and empty layer names
RegisterLayers == {"BASS", "melody", "LEAD", "FX", "ZITHER", ""}

\* pitches over [-50, 200]: every seventh, and the edges of the bands in use
RegisterPitches ==
    {p \in -50..200 : p % 7 = 0 \/ p \in {-50, 35, 36, 60, 61, 96, 97, 130, 140, 200}}

InitRegisterAny ==
    /\ InitLegacy
    /\ InitCoreExcept("register_manager")
    /\ \E shift \in ShiftInputs, override_cfg \in OverrideInputs :
          /\ global_shift_semitones = extract_global_shift_semitones(shift)
          /\ bands = build_bands_with_shift_and_override(
                         extract_global_shift_semitones(shift), override_cfg)
    /\ pitch_call = NoPitchCall

ConstrainPitch ==
    \E layer \in RegisterLayers, pitch \in RegisterPitches :
        /\ pitch_call' =
              [op |-> "constrain_pitch", layer |-> layer, pitch |-> pitch,
               returned |-> constrain_pitch(bands, global_shift_semitones,
                                            layer, pitch),
               band |-> get_band(bands, global_shift_semitones, layer)]
        /\ UNCHANGED <<global_shift_semitones, bands>>
        /\ UNCHANGED <<legacyVars, breathVars, zenArcVars, structVars, tuningVars, seedVars>>

NextRegister == ConstrainPitch

SpecRegister == InitRegisterAny /\ [][NextRegister]_vars

-----------------------------------------------------------------------------
(* The TuningCoreV3 under arbitrary option strings *)

KeyInputs == {"C", "d", "Eb", "H", "Q#", ""}
ScaleInputs == {"major", "Ionian", "Dorian", "minor", "banana", ""}
ModeInputs == {"pure_key", "SOLF", "Solf_Dual", "key+solf_drone", "bogus", ""}
SolfInputs == {<< >>, <<528>>, <<963>>, <<396, 528>>, <<-1, 528>>}

InitTuningAny ==
    /\ InitLegacy
    /\ InitCoreExcept("tuning_core")
    /\ \E key \in KeyInputs, scale \in ScaleInputs, mode \in ModeInputs,
          solf \in SolfInputs, shift \in BOOLEAN :
          tuning_options = TuningOptions(key, scale, mode, solf, shift)
    /\ tuning_plan = NoPlan
    /\ drone_call = NoDroneCall

BuildPlan ==
    /\ tuning_plan' = build_plan(tuning_options)
    /\ UNCHANGED <<tuning_options, drone_call>>
    /\ UNCHANGED <<legacyVars, breathVars, zenArcVars, structVars, registerVars, seedVars>>

NextTuning == BuildPlan

SpecTuning == InitTuningAny /\ [][NextTuning]_vars

-----------------------------------------------------------------------------
(* The slots of a breath: the shifted calls of a run, followed in order *)

\* a layer with rule "valley" and one with rule "end"; "peak" by override
SlotLayers == {"melody", "chime"}
SlotPreferModes == {"None", "peak"}
SlotTicks == {0, ppq, 5 * ppq}

InitSlotAny ==
    /\ InitLegacy
    /\ InitCoreExcept("breath_sync")
    /\ \E bars \in BreathCycleInputs :
          breath_sync = BreathSyncManager_init(ppq, bars, TRUE)
    /\ slots_used = << >>
    /\ breath_call = NoBreathCall
    /\ nalign = 0
    /\ align_log = << >>

SlotAlignNote ==
    \E layer \in SlotLayers, tick \in SlotTicks, prefer \in SlotPreferModes :
        AlignNoteCall(layer, tick, prefer, MaxAlign, TRUE)

NextSlot == SlotAlignNote \/ BreathResetState

SpecSlot == InitSlotAny /\ [][NextSlot]_vars

-----------------------------------------------------------------------------
(* One breath asked for again and again *)

MaxCrowd == 11
CrowdTicks == {0, 6 * ppq}

InitCrowd == InitLegacy /\ InitCore

CrowdAlignNote ==
    \E layer \in SlotLayers, tick \in CrowdTicks :
        AlignNoteCall(layer, tick, "None", MaxCrowd, FALSE)

NextCrowd == CrowdAlignNote \/ BreathResetState

SpecCrowd == InitCrowd /\ [][NextCrowd]_vars

-----------------------------------------------------------------------------
(* The drone note of an anchor frequency *)

MidiNotes == 0..127
AnchorInputs == {20, 396, 528, 963}

InitDrone == InitLegacy /\ InitCore

\* the fold of _suggest_drone_midi_from_solf on a nearest note
FoldNearestMidi ==
    \E base_m \in MidiNotes :
        /\ drone_call' = [op |-> "fold", base_m |-> base_m,
                          drone |-> fold_octaves(base_m)]
        /\ UNCHANGED <<tuning_options, tuning_plan>>
        /\ UNCHANGED <<legacyVars, breathVars, zenArcVars, structVars,
                       registerVars, seedVars>>

\* _suggest_drone_midi_from_solf(solf_hz, 440.0)
SuggestDroneMidiFromSolf ==
    \E solf_hz \in AnchorInputs :
        /\ drone_call' = [op |-> "suggest",
                          base_m |-> nearest_midi_from_freq(solf_hz),
                          drone |-> suggest_drone_midi_from_solf(solf_hz)]
        /\ UNCHANGED <<tuning_options, tuning_plan>>
        /\ UNCHANGED <<legacyVars, breathVars, zenArcVars, structVars,
                       registerVars, seedVars>>

NextDrone == FoldNearestMidi \/ SuggestDroneMidiFromSolf

SpecDrone == InitDrone /\ [][NextDrone]_vars

-----------------------------------------------------------------------------
(* Two runs of one configuration, given the same calls *)

SeedInputs == {1, 2, 5}
SeedOptions == {<< >>} \cup {<<sd>> : sd \in SeedInputs}
EnergyInputs == {0, 50, 100}

\* both runs read one options file; a run without a seed draws its own
InitSeedAny ==
    /\ InitMap /\ total_ticks = bin_size_ticks * MaxBins
    /\ scenario = "none" /\ commit_log = {} /\ query_log = {} /\ engine_pc = 0
    /\ InitSafety
    /\ InitCoreExcept("seed")
    /\ seed_option \in SeedOptions
    /\ \E f1 \in SeedInputs, f2 \in SeedInputs :
          runs = <<StartRun(normalize_seed(seed_option, f1), num_bins),
                   StartRun(normalize_seed(seed_option, f2), num_bins)>>
    /\ draw_sources = {}
    /\ nseed = 0

UnchangedBySeed ==
    UNCHANGED <<legacyVars, breathVars, zenArcVars, structVars, registerVars,
                tuningVars, seed_option>>

SeedQueryDecision ==
    \E layer \in LayerInputs, t \in QueryTickInputs :
        /\ nseed < MaxSeedCalls
        /\ runs' = [i \in 1..2 |-> run_query_decision(runs[i], layer, t)]
        /\ draw_sources' =
              IF \E i \in 1..2 : hard_limit_passed(runs[i], layer, t)
              THEN draw_sources \cup {"activity_map.rng"} ELSE draw_sources
        /\ nseed' = nseed + 1
        /\ UnchangedBySeed

SeedCommitEvent ==
    \E layer \in LayerInputs, t \in RunTicks, d \in RunDurations :
        /\ nseed < MaxSeedCalls
        /\ runs' = <<run_commit_event(runs[1], layer, t, d, Tenth(30)),
                   run_commit_event(runs[2], layer, t, d, Tenth(30))>>
        /\ nseed' = nseed + 1
        /\ UNCHANGED draw_sources
        /\ UnchangedBySeed

ChimeComputeVelocity ==
    \E energy \in EnergyInputs :
        /\ nseed < MaxSeedCalls
        /\ runs' = <<compute_velocity(runs[1], energy),
                   compute_velocity(runs[2], energy)>>
        /\ draw_sources' = draw_sources \cup {"random"}
        /\ nseed' = nseed + 1
        /\ UnchangedBySeed

NextSeed == SeedQueryDecision \/ SeedCommitEvent \/ ChimeComputeVelocity

SpecSeed == InitSeedAny /\ [][NextSeed]_vars

-----------------------------------------------------------------------------
(* Properties of the ActivityMap *)

\* C1: in a generation run every commit for a layer and tick comes after a
\* query for that layer and tick that returned allow = true.
C1_CommitFollowsAllow ==
    \A c \in commit_log : <<c[1], c[2], TRUE>> \in query_log

IsCommit(c) == c.op \in {"commit_event", "add_activity"}
IsQuery(c) == c.op = "query_decision"

\* the densities the latest query read (a query leaves the bins as they were)
QueriedDensity ==
    get_density(global_bins, layer_bins, last_call.layer, last_call.start_tick)

OverHardLimit ==
    \/ RLt(global_hard_limit, QueriedDensity[1])
    \/ RLt(layer_hard_limit,
           RMul(QueriedDensity[2], energy_weight(Upper(last_call.layer))))

\* C5: a query made while the smoothed global density is above the global
\* hard limit, or the layer's density times its energy weight is above the
\* layer hard limit, returns allow = false, whatever the two random draws.
C5_HardLimitDenies ==
    (IsQuery(last_call) /\ OverHardLimit) => decision.allow = FALSE

C5_Witness ==
    /\ IsQuery(last_call)
    /\ OverHardLimit
    /\ decision.reason = "global_over_hard_limit"
    /\ num_bins > 1

\* the phase of the tick and the breath position a query would have to report
PhaseOfQuery ==
    get_phase_for_tick(build_default_phases, last_call.start_tick, total_ticks)

BreathOfQuery == get_breath_position(last_call.start_tick)

\* C7: with the repository's ZenArcMatrix and BreathSyncManager, a decision
\* names the phase containing tick / total_ticks, carries the breath index and
\* breath tag of the tick, and its movement ratio starts from that phase's
\* movement_bias.
C7_DecisionCarriesPhaseAndBreath ==
    (IsQuery(last_call) /\ total_ticks > 0) =>
        /\ decision.phase_name = PhaseOfQuery.name
        /\ decision.movement_bias = PhaseOfQuery.movement_bias
        /\ decision.breath_index = BreathOfQuery[1]
        /\ decision.breath_phase = get_phase_tag(BreathOfQuery[2])

\* the bins of the map that the half-open tick interval [s, e) overlaps
SpannedBins(s, e) ==
    {i \in 0..(num_bins - 1) :
        i * bin_size_ticks < e /\ s < (i + 1) * bin_size_ticks}

BinsOf(lb, key) == IF key \in DOMAIN lb THEN lb[key] ELSE ZeroBins(num_bins)

\* C8: a commit with duration_ticks > 0 adds weight / k to each of the k bins
\* that [start_tick, start_tick + duration_ticks) spans, the same in the
\* global array and in the layer's array, and changes no other bin.
C8_CommitSpreadsOverSpannedBins ==
    [][ (IsCommit(last_call') /\ ncommits' = ncommits + 1
            /\ last_call'.duration_ticks > 0) =>
        LET c == last_call'
            sp == SpannedBins(c.start_tick, c.start_tick + c.duration_ticks)
            k == Cardinality(sp)
            key == Upper(c.layer)
            add(i) == IF i \in sp THEN c.weight \div k ELSE 0
        IN  /\ \A i \in 0..(num_bins - 1) :
                 /\ global_bins'[i] = global_bins[i] + add(i)
                 /\ BinsOf(layer_bins', key)[i] = BinsOf(layer_bins, key)[i] + add(i)
            /\ \A other \in (DOMAIN layer_bins) \ {key} :
                 layer_bins'[other] = layer_bins[other]
      ]_vars

\* ticks at which the density of the scenario's bin is read
FairReadTicks ==
    {scenario.bin * bin_size_ticks + off : off \in {0, HalfBin, bin_size_ticks - 1}}

\* both densities read at every tick of the bin equal N * w / bins
FairDensityIs(bins) ==
    \A t \in FairReadTicks :
        LET d == get_density(global_bins, layer_bins, scenario.layer, t)
            expected == Rat(ncommits * scenario.weight, bins * Tenth(10))
        IN  d[1] = expected /\ d[2] = expected

-----------------------------------------------------------------------------
(* Properties of the SafetyFilter *)

Returned == result.kind = "returned"

\* C2: an apply_note call whose input velocity is zero or negative returns
\* allow = false.
C2_NonPositiveVelocityDenied ==
    (Returned /\ result.velocity_in <= 0) => result.allow = FALSE

\* C3: whatever the inputs and the history, the pitch and the velocity that
\* apply_note returns lie in 0..127.
C3_ReturnedNoteInMidiRange ==
    Returned => (result.pitch \in 0..127 /\ result.velocity \in 0..127)

C3_Witness ==
    /\ Returned
    /\ napply = MaxApply
    /\ result.velocity_in = 200
    /\ result.pitch = get_layer_range(result.layer, result.tick)[2]
    /\ result.velocity \in 1..127

\* C4: a SafetyFilter holding the repository's RegisterManager, as
\* run_zen_core builds it, never raises from apply_note.
C4_ApplyNeverRaises ==
    register_manager = "register_manager.RegisterManager"
        => result.kind # "raised"

\* C9: an apply_note call that returns allow = false leaves the per-layer
\* last velocity, the per-layer last tick and velocity of the shock guard, and
\* the density window as they were.
C9_DeniedCallLeavesHistory ==
    [][ (napply' = napply + 1 /\ result'.kind = "returned" /\ ~result'.allow) =>
            /\ safety'.last_velocity = safety.last_velocity
            /\ safety'.shock_last = safety.shock_last
            /\ safety'.density_events = safety.density_events
      ]_vars

\* C10: the velocity returned for an accepted note is at most vel_step_up_max
\* above and at most vel_step_down_max below the velocity returned for the
\* layer's previous accepted note.
C10_AcceptedVelocityStep ==
    [][ (/\ napply' = napply + 1
         /\ result'.kind = "returned" /\ result'.allow
         /\ result'.layer \in DOMAIN safety.last_velocity) =>
            LET prev == safety.last_velocity[result'.layer]
            IN  /\ result'.velocity - prev <= cfg.vel_step_up_max
                /\ prev - result'.velocity <= cfg.vel_step_down_max
      ]_vars

-----------------------------------------------------------------------------
(* Properties of the BreathSyncManager *)

IsAlign(c) == c.op = "align_note"

\* C11: every align_note call whose mode is valley, peak or end returns a
\* tick at most max_shift_ratio * breath_length_ticks away from the tick it
\* was given.
C11_AlignShiftBounded ==
    (IsAlign(breath_call) /\ breath_call.mode \in {"valley", "peak", "end"})
        => RLe(Rat(Abs(breath_call.tick - breath_call.start_tick), 1),
               RMul(max_shift_ratio, Rat(breath_length_ticks, 1)))

\* C12: an align_note call whose effective mode is follow or free returns the
\* tick it was given and leaves every slot counter as it was, whatever calls
\* came before.
C12_FollowFreeLeaveTickAndSlots ==
    [][(IsAlign(breath_call') /\ breath_call'.mode \in {"follow", "free"})
          => /\ breath_call'.tick = breath_call'.start_tick
             /\ slots_used' = slots_used]_vars

C12_Witness ==
    /\ IsAlign(breath_call) /\ breath_call.mode \in {"follow", "free"}
    /\ breath_sync.enabled
    /\ breath_call.breath_index = 1
    /\ \E k \in DOMAIN slots_used : k[1] = 1 /\ slots_used[k] = 2

-----------------------------------------------------------------------------
(* Properties of the ZenArcMatrix *)

Contiguous(ps) ==
    /\ ps[1].start_ratio = Zero
    /\ ps[Len(ps)].end_ratio = One
    /\ \A i \in 1..(Len(ps) - 1) : ps[i].end_ratio = ps[i + 1].start_ratio

\* C13: with the default timeline the phases are contiguous from 0 to 1, and
\* get_phase_by_ratio returns, for a ratio in [0, 1), the one phase that
\* contains it, which on an internal boundary is the later phase, and for the
\* ratio 1 the last phase.
C13_DefaultPhasePartition ==
    timeline = << >> =>
        /\ Contiguous(phases)
        /\ phase_call.op = "get_phase_by_ratio" =>
              LET r == phase_call.ratio
                  holders == {i \in 1..Len(phases) :
                                 /\ RLe(phases[i].start_ratio, r)
                                 /\ RLt(r, phases[i].end_ratio)}
              IN  /\ RLt(r, One) => Cardinality(holders) = 1
                                    /\ \A i \in holders : phase_call.phase = phases[i]
                  /\ r = One => phase_call.phase = phases[Len(phases)]
                  /\ \A i \in 2..Len(phases) :
                        r = phases[i].start_ratio => phase_call.phase = phases[i]

C13_Witness ==
    /\ timeline = << >>
    /\ phase_call.op = "get_phase_by_ratio"
    /\ phase_call.ratio = Rat(42, 100)
    /\ phase_call.phase.name = "breakdown"

\* C14: whatever timeline overrides the matrix was built with, its phases are
\* ordered by start_ratio and partition [0, 1]: the first starts at 0, the
\* last ends at 1, and each phase ends where the next one starts.
C14_OverridesKeepPartition ==
    /\ \A i \in 1..(Len(phases) - 1) :
          RLe(phases[i].start_ratio, phases[i + 1].start_ratio)
    /\ Contiguous(phases)

-----------------------------------------------------------------------------
(* Properties of the StructureBuilder *)

\* C15: a build for a total length N > 0 returns a non-empty list whose first
\* segment starts at 0, whose start_ticks never decrease, in which each
\* segment ends where the next starts, and whose last segment ends at N.
C15_SegmentsCoverTotal ==
    (build_call.op = "build_segments" /\ build_call.total_ticks > 0) =>
        /\ Len(segments) > 0
        /\ segments[1].start_tick = 0
        /\ \A i \in 1..(Len(segments) - 1) :
              /\ segments[i].start_tick <= segments[i + 1].start_tick
              /\ segments[i].end_tick = segments[i + 1].start_tick
        /\ segments[Len(segments)].end_tick = build_call.total_ticks

\* a build of several segments whose last one was cut short
C15_Witness ==
    /\ build_call.op = "build_segments" /\ build_call.total_ticks > 0
    /\ Len(segments) >= 3
    /\ segments[Len(segments)].duration_ticks < segments[1].duration_ticks
    /\ segments[Len(segments)].end_tick = build_call.total_ticks

\* C16: a build for a total length <= 0 ends with an error and returns no
\* timeline.
C16_NonPositiveTotalRaises ==
    (build_call.op = "build_segments" /\ build_call.total_ticks <= 0)
        => build_call.raised

-----------------------------------------------------------------------------
(* Properties of the RegisterManager *)

\* C17: for every layer name, planned shift and override, constrain_pitch
\* returns for a pitch in [-50, 200] a value between the min and the max of
\* the band get_band reports for that layer name.
C17_ClampInsideBand ==
    pitch_call.op = "constrain_pitch" =>
        /\ pitch_call.band[1] <= pitch_call.returned
        /\ pitch_call.returned <= pitch_call.band[2]

\* an aliased layer with an exchanged override under a shift: a pitch below
\* the band is raised to its min
C17_Witness ==
    /\ pitch_call.op = "constrain_pitch"
    /\ pitch_call.layer = "LEAD"
    /\ global_shift_semitones = 12
    /\ pitch_call.band = <<130, 140>>
    /\ pitch_call.pitch = -50 /\ pitch_call.returned = 130

-----------------------------------------------------------------------------
(* Properties of the TuningCoreV3 *)

\* the strings each option recognizes, whatever their case
RecognizedKeys == {k \in KeyInputs : Upper(k) \in valid_keys}
RecognizedScales ==
    {sc \in ScaleInputs : Lower(sc) \in {"major", "ionian", "maj", "minor",
        "aeolian", "dorian", "mixolydian", "lydian", "phrygian", "locrian"}}
RecognizedModes ==
    {m \in ModeInputs : Lower(m) \in
        {"pure", "key", "pure-key", "pure_key", "solf", "solf_root", "solf-root",
         "follow_solf", "solf_dual", "dual_solf", "solf-dual",
         "key_plus_solf_drone", "key+solf_drone", "key_solf_drone"}}

\* C19: build_plan does not raise on option strings; a key it does not
\* recognize gives base key C, a scale it does not recognize gives scale
\* major, a mode it does not recognize gives mode pure_key.
C19_InvalidStringsFallBack ==
    tuning_plan # NoPlan =>
        /\ ~tuning_plan.raised
        /\ tuning_options.key \notin RecognizedKeys => tuning_plan.base_key = "C"
        /\ tuning_options.scale \notin RecognizedScales => tuning_plan.scale = "major"
        /\ tuning_options.drone_mode \notin RecognizedModes
              => tuning_plan.mode = "pure_key"

-----------------------------------------------------------------------------
(* Properties of the generators *)

\* the two runs made the same decisions and accepted the same notes
SameOutput ==
    /\ runs[1].decisions = runs[2].decisions
    /\ runs[1].notes = runs[2].notes

\* every draw came from one generator
SingleGenerator == Cardinality(draw_sources) <= 1

\* C18: two runs given the same seed and the same calls make the same
\* decisions and accept the same notes, and every draw behind a decision or
\* a note comes from one generator.
C18_SameSeedSameDecisions ==
    (runs # << >> /\ seed_option # << >>) => SameOutput /\ SingleGenerator

\* C21: a plan of mode pure_key has planned semitone shift 0 and planned
\* ratio 1, whatever anchors, key and scale the options carry.
C21_PureKeyPlansNoShift ==
    (tuning_plan # NoPlan /\ tuning_plan.mode = "pure_key") =>
        /\ tuning_plan.global_semitone_shift_planned = 0
        /\ tuning_plan.global_ratio_planned = 10000

\* a pure_key plan built from two anchors with the global shift enabled
C21_Witness ==
    /\ tuning_plan # NoPlan
    /\ tuning_plan.mode = "pure_key"
    /\ Len(tuning_options.solf_profile) = 2
    /\ tuning_options.solf_profile[1] > 0
    /\ tuning_options.enable_global_shift
    /\ tuning_plan.base_key = "D" /\ tuning_plan.scale = "dorian"

\* C24: the octave fold of a nearest note in 0..127 ends with a drone note
\* in 36..72 that lies a whole number of octaves from the nearest note.
C24_FoldIntoDroneRange ==
    drone_call # NoDroneCall =>
        /\ drone_call.drone \in 36..72
        /\ (drone_call.drone - drone_call.base_m) % 12 = 0

\* the highest note, folded down by five octaves
C24_Witness ==
    /\ drone_call # NoDroneCall
    /\ drone_call.base_m = 127
    /\ drone_call.drone = 67

-----------------------------------------------------------------------------
(* Properties of the breath slots *)

SlotKey(e) == <<e.breath_index, e.mode>>

\* the requests of the same slot made before the i-th since the last reset
PriorInSlot(i) ==
    Cardinality({j \in 1..(i - 1) : SlotKey(align_log[j]) = SlotKey(align_log[i])})

\* the target tick of the request's breath, kept within the largest shift
ClampedTarget(e) ==
    LET bl == breath_length_ticks
        max_shift == IntOf(RMul(max_shift_ratio, Rat(bl, 1)))
        target == e.breath_index * bl
                    + IntOf(RMul(get_target_phase(e.mode), Rat(bl, 1)))
    IN  Max(e.start_tick - max_shift, Min(e.start_tick + max_shift, target))

C26_AlignedTickInsideBreath ==
    (IsAlign(breath_call) /\ breath_call.mode \in {"valley", "peak", "end"}) =>
        /\ breath_call.breath_index * breath_length_ticks <= breath_call.tick
        /\ breath_call.tick < (breath_call.breath_index + 1) * breath_length_ticks

StartTicksNonDecreasing ==
    /\ \A i \in DOMAIN align_log : align_log[i].start_tick >= 0
    /\ \A i, j \in DOMAIN align_log :
          i < j => align_log[i].start_tick <= align_log[j].start_tick

\* C28: when the calls since the last reset_state were given ticks that are
\* not negative and never go back, the ticks returned to the calls of one
\* slot (breath_index, mode) increase strictly in call order.
C28_SlotTicksIncrease ==
    StartTicksNonDecreasing =>
        \A i, j \in DOMAIN align_log :
            (i < j /\ SlotKey(align_log[i]) = SlotKey(align_log[j]))
                => align_log[i].tick < align_log[j].tick

\* three calls of one slot, given rising ticks
C28_Witness ==
    /\ Len(align_log) = 3 /\ StartTicksNonDecreasing
    /\ SlotKey(align_log[1]) = SlotKey(align_log[2])
    /\ SlotKey(align_log[2]) = SlotKey(align_log[3])
    /\ align_log[1].start_tick < align_log[2].start_tick
    /\ align_log[2].start_tick < align_log[3].start_tick
    /\ align_log[1].tick < align_log[2].tick
    /\ align_log[2].tick < align_log[3].tick
\* C23: the global and per-voice bins are changed only by commit: a
\* query_decision call, whatever it decides, leaves every bin of every array
\* as it was, and creates no array.
C23_QueryLeavesBins ==
    [][last_call'.op = "query_decision"
        => (global_bins' = global_bins /\ layer_bins' = layer_bins)]_vars

\* a query that was denied on bins that hold committed weight
C23_Witness ==
    /\ last_call.op = "query_decision"
    /\ decision.reason # "none"
    /\ ~decision.allow
    /\ "MELODY" \in DOMAIN layer_bins
    /\ \E i \in DOMAIN global_bins : global_bins[i] > 0

-----------------------------------------------------------------------------
(* An ActivityMap of one bin whose values are kept as Python keeps them *)

\* the weights the engines commit: 0.6 (handpan), 0.8 (chime), 1.0 (melody)
DoubleWeights == {6, 8, 10}

InitDouble ==
    /\ total_ticks = 0
    /\ global_bins = [i \in 0..(num_bins_for(0) - 1) |-> float_zero]
    /\ layer_bins = << >>
    /\ decision = NoDecision
    /\ last_call = NoCall
    /\ ncommits = 0
    /\ InitRunVars

DoubleCommit(op, layer, t, w) ==
    LET r == float_commit_event(global_bins, layer_bins, layer, t, HalfBin,
                                float_of_tenths(w))
    IN  /\ ncommits < MaxSums
        /\ global_bins' = r[1]
        /\ layer_bins' = r[2]
        /\ last_call' = Call(op, layer, t, HalfBin, w)
        /\ ncommits' = ncommits + 1
        /\ UNCHANGED <<total_ticks, decision>>
        /\ UNCHANGED runVars

DoubleCommitEvent ==
    \E t \in {0, HalfBin}, w \in DoubleWeights :
        DoubleCommit("commit_event", "melody", t, w)

\* add_activity: commit_event with the default layer "GLOBAL"
DoubleAddActivity ==
    \E t \in {0, HalfBin}, w \in DoubleWeights :
        DoubleCommit("add_activity", "GLOBAL", t, w)

NextDouble == DoubleCommitEvent \/ DoubleAddActivity

SpecDouble == InitDouble /\ [][NextDouble]_vars

\* C27: after any sequence of commit_event and add_activity calls, for every
\* bin index the global array's value equals the sum of that bin's values
\* over all per-voice arrays.
C27_GlobalIsSumOfLayers ==
    \A i \in DOMAIN global_bins :
        global_bins[i] = float_sum_layers(layer_bins, DOMAIN layer_bins, i)

-----------------------------------------------------------------------------
(* An ActivityMap whose hard-limit denials are remembered *)

HardLimitReasons == {"global_over_hard_limit", "layer_over_hard_limit"}

InitDenied == InitMap /\ InitRunVars

\* query ticks in the first bin and in the second
DeniedTicks == {HalfBin, bin_size_ticks + HalfBin}

\* the log keeps the first denial of each voice and tick
DeniedQueryDecision ==
    \E layer \in LayerInputs, t \in DeniedTicks,
       r1 \in RandInputs, r2 \in RandInputs :
        /\ decision' = query_decision(global_bins, layer_bins, layer, t, r1, r2)
        /\ last_call' = Call("query_decision", layer, t, 0, 0)
        /\ query_log' = IF /\ decision'.reason \in HardLimitReasons
                           /\ \A e \in query_log : <<e[1], e[2]>> # <<layer, t>>
                        THEN query_log \cup {<<layer, t, ncommits>>}
                        ELSE query_log
        /\ global_bins' = query_bins(global_bins, layer_bins, layer, t)[1]
        /\ layer_bins' = query_bins(global_bins, layer_bins, layer, t)[2]
        /\ UNCHANGED <<total_ticks, ncommits>>
        /\ UNCHANGED <<scenario, commit_log, engine_pc, safetyVars, coreVars>>

NextDenied == CommitEvent \/ AddActivity \/ DeniedQueryDecision

SpecDenied == InitDenied /\ [][NextDenied]_vars

\* C29: with non-negative committed weights, once a query for a voice and a
\* tick was denied by a hard limit, a query for the same voice and tick is
\* denied by a hard limit in every later state of the run, whatever was
\* committed in between and whatever the generator draws.
C29_HardDenialStays ==
    \A e \in query_log :
        /\ \A r1 \in RandInputs, r2 \in RandInputs :
              LET d == query_decision(global_bins, layer_bins, e[1], e[2], r1, r2)
              IN  ~d.allow /\ d.reason \in HardLimitReasons
        /\ (last_call.op = "query_decision" /\ last_call.layer = e[1]
              /\ last_call.start_tick = e[2])
            => (~decision.allow /\ decision.reason \in HardLimitReasons)

\* a query denied again after a commit that followed its first denial
C29_Witness ==
    \E e \in query_log :
        /\ e[3] < ncommits
        /\ last_call.op = "query_decision"
        /\ last_call.layer = e[1]
        /\ last_call.start_tick = e[2]
        /\ decision.reason \in HardLimitReasons

-----------------------------------------------------------------------------
(* A SafetyFilter whose density limits a few notes reach, called in tick order *)

\* _build_config with user_options["safety_filter"] setting the soft count to
\* 1 and the hard count to 2, under either policy for the notes in excess
DenseConfig(drop) ==
    [DefaultConfig EXCEPT !.density_soft_limit = 1, !.density_hard_limit = 2,
                          !.density_drop_excess_notes = drop]

\* ticks at the start, the middle and the end of a density window, and past it
DenseTicks ==
    LET w == density_window_ticks(DefaultConfig)
    IN  {0, w \div 2, w, w + 1, 2 * w}

InitDensity ==
    /\ InitMap /\ total_ticks = 0
    /\ scenario = "none" /\ commit_log = {} /\ query_log = {} /\ engine_pc = 0
    /\ register_manager \in RegisterManagerClasses
    /\ cfg \in {DenseConfig(TRUE), DenseConfig(FALSE)}
    /\ safety = EmptySafety
    /\ result = NoResult
    /\ napply = 0
    /\ apply_log = << >>
    /\ InitCore

\* apply_note for a voice whose earlier calls were at this tick or before it
DenseApplyNote ==
    \E layer \in SafetyLayers, velocity \in {0, 60}, tick \in DenseTicks :
        LET a == apply_note(register_manager, cfg, safety, layer, 60,
                            velocity, tick, NoMeta)
        IN  /\ napply < MaxDense
            /\ \A i \in DOMAIN apply_log :
                  apply_log[i].layer = layer => apply_log[i].tick <= tick
            /\ safety' = a.state
            /\ result' = ResultOf(a, layer, velocity, tick)
            /\ napply' = napply + 1
            /\ apply_log' = Append(apply_log,
                                   [layer |-> layer, tick |-> tick,
                                    allow |-> a.kind = "returned" /\ a.allow])
            /\ UNCHANGED <<mapVars, coreVars, scenario, commit_log, query_log,
                           engine_pc, register_manager, cfg>>

NextDensity == DenseApplyNote

SpecDensity == InitDensity /\ [][NextDensity]_vars

\* the accepted notes of a voice with ticks in [lo, hi]
AcceptedIn(layer, lo, hi) ==
    Cardinality({i \in DOMAIN apply_log :
                    /\ apply_log[i].allow
                    /\ apply_log[i].layer = layer
                    /\ lo <= apply_log[i].tick
                    /\ apply_log[i].tick <= hi})

\* C25: under the drop policy, with the apply_note calls of a voice made in
\* non-decreasing tick order, the accepted notes of the voice whose ticks lie
\* within a span of one density window are never more than the hard count.
\* (A span holds the most notes when it starts at a note, so the spans that
\* start at the logged ticks are the ones looked at.)
C25_AcceptedWithinHardCount ==
    cfg.density_drop_excess_notes =>
        \A i \in DOMAIN apply_log :
            AcceptedIn(apply_log[i].layer, apply_log[i].tick,
                       apply_log[i].tick + density_window_ticks(cfg))
                <= cfg.density_hard_limit

\* the hard count of notes accepted in one window, and a further note of the
\* voice in that window denied
C25_Witness ==
    /\ cfg.density_drop_excess_notes
    /\ result.kind = "returned" /\ ~result.allow /\ result.velocity_in > 0
    /\ \E i \in DOMAIN apply_log :
          /\ apply_log[i].layer = result.layer
          /\ result.tick <= apply_log[i].tick + density_window_ticks(cfg)
          /\ AcceptedIn(apply_log[i].layer, apply_log[i].tick,
                        apply_log[i].tick + density_window_ticks(cfg))
                = cfg.density_hard_limit

-----------------------------------------------------------------------------
(* A SafetyFilter with the default configuration and a history of loud notes *)

InitMix ==
    /\ InitMap /\ total_ticks = 0
    /\ scenario = "none" /\ commit_log = {} /\ query_log = {} /\ engine_pc = 0
    /\ register_manager = "safety_filter.RegisterManager"
    /\ cfg = DefaultConfig
    /\ safety = EmptySafety
    /\ result = NoResult
    /\ napply = 0
    /\ apply_log = << >>
    /\ InitCore

\* the history: apply_note("air", 60, 120, 0), up to MaxPrior times, before
\* the calls that are explored
LoudApplyNote ==
    LET a == apply_note(register_manager, cfg, safety, "air", 60, 120, 0, NoMeta)
    IN  /\ napply = 0
        /\ Len(safety.mix_events) < MaxPrior
        /\ safety' = a.state
        /\ result' = ResultOf(a, "air", 120, 0)
        /\ UNCHANGED <<mapVars, coreVars, scenario, commit_log, query_log,
                       engine_pc, register_manager, cfg, napply, apply_log>>

MixApplyNote ==
    \E layer \in SafetyLayers, velocity \in VelocityInputs,
       tick \in {0, ppq \div 2}, meta \in MetaInputs :
        LET a == apply_note(register_manager, cfg, safety, layer, 60,
                            velocity, tick, meta)
        IN  /\ napply < MaxApply
            /\ safety' = a.state
            /\ result' = ResultOf(a, layer, velocity, tick)
            /\ napply' = napply + 1
            /\ UNCHANGED <<mapVars, coreVars, scenario, commit_log, query_log,
                           engine_pc, register_manager, cfg, apply_log>>

NextMix == LoudApplyNote \/ MixApplyNote

SpecMix == InitMix /\ [][NextMix]_vars

\* C30: with the default configuration, whenever apply_note returns
\* allow = true the returned velocity lies in [vel_min, vel_max] = [10, 120],
\* for every input velocity and every history of earlier calls.
C30_AllowedVelocityInRange ==
    (cfg = DefaultConfig /\ result.kind = "returned" /\ result.allow)
        => (cfg.vel_min <= result.velocity /\ result.velocity <= cfg.vel_max)

\* a quiet note on a full mix: softened below vel_min by the MixEnergyGuard
\* and returned, allowed, at vel_min
C30_Witness ==
    /\ cfg = DefaultConfig
    /\ result.kind = "returned" /\ result.allow
    /\ result.velocity = cfg.vel_min
    /\ Len(safety.mix_events) > cfg.mix_energy_max
    /\ safety.mix_events[Len(safety.mix_events)][2] < cfg.vel_min

====
